---- MODULE Spec2Model ----
(***************************************************************************)
(* Pocket Scout Dynamic Time: the signal pipeline of content.js.backup     *)
(* (tick aggregation, timing window, publish, outcome verification), the   *)
(* SignalTimingController, the CircularBuffer and the learning agent of    *)
(* rl-integration.js, as one state machine.                                *)
(*                                                                         *)
(* JavaScript runs every callback to completion, so each timer callback,   *)
(* message handler and tick is one atomic action.  Handlers are written as *)
(* functions from a world record (all module states) to a world record, so *)
(* that a handler that calls another one composes them in program order.   *)
(*                                                                         *)
(* Numbers: prices are integers (scaled ticks); rewards are in tenths;     *)
(* bandit weights are in 1/2000 (1.0 = 2000); epsilon is in 1/100000.      *)
(* Indicator arithmetic over the candle series (group proposals, gate      *)
(* results, encoded state, price at expiry) enters the orchestrator as     *)
(* inputs chosen by the environment; the regime detector is read only      *)
(* through those inputs and is not part of the state.                      *)
(***************************************************************************)
EXTENDS Integers, Sequences, FiniteSets, TLC

VARIABLES circularBuffer, cs, rl, stc, timers, feed, env, hist

vars == <<circularBuffer, cs, rl, stc, timers, feed, env, hist>>

\* JavaScript null, for a variable that otherwise holds an object, a number
\* (indices, ids and times are never negative) or a string.
NULL == [null |-> TRUE]
NONE == -1
NOTHING == "null"

Max(a, b) == IF a >= b THEN a ELSE b
Min(a, b) == IF a <= b THEN a ELSE b

(***************************************************************************)
(* Bounds of the model.                                                    *)
(***************************************************************************)
MaxMinute == 2
MaxPrice == 2
MaxTicks == 4
MaxWindows == 2
MaxPublished == 1
MaxStateId == 2
MaxCapacity == 3
MaxPushes == 5
MaxCalls == 4
MaxExtraCandles == 2
MaxUpdates == 3
MaxOutcomes == 3
MaxBatch == 3
MaxTrainings == 2
MaxCycles == 5
MaxRewards == 1
MaxDetections == 3
MaxCloses == 4
MaxPeriod == 3
MaxSignals == 2

(***************************************************************************)
(* CircularBuffer (CandleBuffer).  buffer is the JS array with holes: a    *)
(* function whose domain is the set of indices written so far.             *)
(***************************************************************************)
MAX_CANDLES == 2000

NewCandleBuffer(maxSize) ==
  [maxSize |-> maxSize, buffer |-> <<>>, head |-> 0, tail |-> 0,
   size |-> 0, isFull |-> FALSE]

\* A variant of push that keeps the tail where it is when the buffer is full.
pushKeepingTail(b, candle) ==
  [b EXCEPT !.buffer = [i \in (DOMAIN b.buffer) \cup {b.head} |->
                          IF i = b.head THEN candle ELSE b.buffer[i]],
            !.size   = IF b.isFull THEN b.size ELSE b.size + 1,
            !.isFull = b.isFull \/ (b.size + 1 = b.maxSize),
            !.head   = (b.head + 1) % b.maxSize]

push(b, candle) ==
  LET stored == [i \in (DOMAIN b.buffer) \cup {b.head} |->
                   IF i = b.head THEN candle ELSE b.buffer[i]]
      full   == ~b.isFull /\ b.size + 1 = b.maxSize
  IN [b EXCEPT !.buffer = stored,
               !.tail   = IF b.isFull THEN (b.tail + 1) % b.maxSize ELSE b.tail,
               !.size   = IF b.isFull THEN b.size ELSE b.size + 1,
               !.isFull = b.isFull \/ full,
               !.head   = (b.head + 1) % b.maxSize]

lastIndex(b) == IF b.head = 0 THEN b.maxSize - 1 ELSE b.head - 1

\* A variant of updateLast that moves the close alone.
updateLastClose(b, updates) ==
  IF b.size = 0 THEN b
  ELSE IF lastIndex(b) \notin DOMAIN b.buffer THEN b
  ELSE [b EXCEPT !.buffer[lastIndex(b)] = [@ EXCEPT !.c = updates.c]]

\* A variant of updateLast that takes the update as the whole candle.
updateLastReplacing(b, updates) ==
  IF b.size = 0 THEN b
  ELSE IF lastIndex(b) \notin DOMAIN b.buffer THEN b
  ELSE [b EXCEPT !.buffer[lastIndex(b)] =
          [@ EXCEPT !.o = updates.c, !.h = updates.h, !.l = updates.l,
                    !.c = updates.c]]

updateLast(b, updates) ==
  IF b.size = 0 THEN b
  ELSE IF lastIndex(b) \notin DOMAIN b.buffer THEN b
  ELSE LET lastCandle == b.buffer[lastIndex(b)]
       IN [b EXCEPT !.buffer[lastIndex(b)] =
             [lastCandle EXCEPT !.h = Max(lastCandle.h, updates.h),
                                !.l = Min(lastCandle.l, updates.l),
                                !.c = updates.c]]

toArray(b) ==
  IF b.size = 0 THEN <<>>
  ELSE [i \in 1..b.size |-> b.buffer[(b.tail + (i - 1)) % b.maxSize]]

getLastCandle(b) ==
  IF b.size = 0 THEN NULL ELSE b.buffer[lastIndex(b)]

(***************************************************************************)
(* The world: every module's state, as handlers read and write it.         *)
(***************************************************************************)
World ==
  [circularBuffer |-> circularBuffer, cs |-> cs, rl |-> rl, stc |-> stc,
   timers |-> timers, feed |-> feed, env |-> env, hist |-> hist]

Commit(w) ==
  /\ circularBuffer' = w.circularBuffer
  /\ cs' = w.cs
  /\ rl' = w.rl
  /\ stc' = w.stc
  /\ timers' = w.timers
  /\ feed' = w.feed
  /\ env' = w.env
  /\ hist' = w.hist

\* f with the count at key k raised by one (absent keys count 0).
Bump(f, k) ==
  [i \in (DOMAIN f) \cup {k} |-> IF i \in DOMAIN f THEN (IF i = k THEN f[i] + 1 ELSE f[i]) ELSE 1]

\* Math.round(n / d) for d > 0: floor(n/d + 1/2).
RoundDiv(n, d) == (2 * n + d) \div (2 * d)

\* Variant for comparison: the lower bound alone.
clampBelow(x, lo, hi) == Max(lo, x)

Clamp(x, lo, hi) == Max(lo, Min(hi, x))

(***************************************************************************)
(* Indicator groups: the registry is an array; a group is named by its     *)
(* index in it (groups[i].id and i determine each other).                  *)
(***************************************************************************)
NumGroups == 2
Groups == 0..(NumGroups - 1)

(***************************************************************************)
(* RLIntegration                                                           *)
(***************************************************************************)
EPSILON == 30000
EPSILON_MIN == 1000
REWARD_WIN == 100
REWARD_LOSS == -50
STATE_DIMENSION == 16
BUFFER_SIZE == 1000
BATCH_SIZE == 32
MIN_EXPERIENCES == 50

getBanditWeight(r, groupId) ==
  IF groupId = NONE THEN 2000
  ELSE IF groupId \in DOMAIN r.banditWeights THEN r.banditWeights[groupId]
  ELSE 2000

\* Variant for comparison: the update without the clamp to [0.5, 2.0].
updateBanditWeightUnclamped(r, groupId, result, confidence) ==
  IF groupId = NONE THEN r
  ELSE LET base == getBanditWeight(r, groupId)
           adj  == IF result = "WIN" THEN 100 + 4 * (confidence - 60)
                   ELSE -100 - 5 * (confidence - 60)
       IN [r EXCEPT !.banditWeights =
             [g \in (DOMAIN r.banditWeights) \cup {groupId} |->
                IF g = groupId THEN base + adj ELSE r.banditWeights[g]]]

\* adj = WIN ? 0.05 + (conf-60)/500 : -0.05 - (conf-60)/400, in 1/2000.
updateBanditWeight(r, groupId, result, confidence) ==
  IF groupId = NONE THEN r
  ELSE LET base == getBanditWeight(r, groupId)
           adj  == IF result = "WIN" THEN 100 + 4 * (confidence - 60)
                   ELSE -100 - 5 * (confidence - 60)
           next == Min(4000, Max(1000, base + adj))
       IN [r EXCEPT !.banditWeights =
             [g \in (DOMAIN r.banditWeights) \cup {groupId} |->
                IF g = groupId THEN next ELSE r.banditWeights[g]]]

\* A reward whose high-confidence bonus of a WIN goes to the confidences
\* below 85.
rewardOfBonusBelow(r, result, signalConfidence, marketConditions) ==
  LET base == IF result = "WIN" THEN REWARD_WIN
              ELSE IF result = "LOSS" THEN REWARD_LOSS ELSE 0
      conf == IF signalConfidence = NONE THEN 0
              ELSE IF result = "WIN"
                   THEN (signalConfidence - 60)
                        + (IF signalConfidence < 85 THEN 50 ELSE 0)
              ELSE IF result = "LOSS"
                   THEN (IF signalConfidence >= 85 THEN -100
                         ELSE IF signalConfidence >= 75 THEN -50 ELSE 0)
                        + (IF signalConfidence >= 80 THEN -30 ELSE 0)
              ELSE 0
      stab == IF marketConditions = NULL THEN 50
              ELSE IF marketConditions.stability = 0 THEN 50
              ELSE marketConditions.stability
      mkt  == IF marketConditions = NULL THEN 0
              ELSE IF result = "WIN" /\ stab > 70 THEN 20
              ELSE IF result = "LOSS" /\ stab < 30 THEN 10
              ELSE 0
      vol  == IF r.lastRiskSnapshot = NOTHING THEN 0
              ELSE IF result = "WIN" /\ r.lastRiskSnapshot = "HIGH" THEN 15
              ELSE IF result = "LOSS" /\ r.lastRiskSnapshot = "EXTREME" THEN 5
              ELSE 0
  IN base + conf + mkt + vol

\* A reward whose confidence penalties of a LOSS all add up.
rewardOfStacking(r, result, signalConfidence, marketConditions) ==
  LET base == IF result = "WIN" THEN REWARD_WIN
              ELSE IF result = "LOSS" THEN REWARD_LOSS ELSE 0
      conf == IF signalConfidence = NONE THEN 0
              ELSE IF result = "WIN"
                   THEN (signalConfidence - 60)
                        + (IF signalConfidence >= 85 THEN 50 ELSE 0)
              ELSE IF result = "LOSS"
                   THEN (IF signalConfidence >= 85 THEN -100 ELSE 0)
                        + (IF signalConfidence >= 75 THEN -50 ELSE 0)
                        + (IF signalConfidence >= 80 THEN -30 ELSE 0)
              ELSE 0
      stab == IF marketConditions = NULL THEN 50
              ELSE IF marketConditions.stability = 0 THEN 50
              ELSE marketConditions.stability
      mkt  == IF marketConditions = NULL THEN 0
              ELSE IF result = "WIN" /\ stab > 70 THEN 20
              ELSE IF result = "LOSS" /\ stab < 30 THEN 10
              ELSE 0
      vol  == IF r.lastRiskSnapshot = NOTHING THEN 0
              ELSE IF result = "WIN" /\ r.lastRiskSnapshot = "HIGH" THEN 15
              ELSE IF result = "LOSS" /\ r.lastRiskSnapshot = "EXTREME" THEN 5
              ELSE 0
  IN base + conf + mkt + vol

\* The reward of one outcome, in tenths (the value calculateReward returns).
rewardOf(r, result, signalConfidence, marketConditions) ==
  LET base == IF result = "WIN" THEN REWARD_WIN
              ELSE IF result = "LOSS" THEN REWARD_LOSS ELSE 0
      conf == IF signalConfidence = NONE THEN 0
              ELSE IF result = "WIN"
                   THEN (signalConfidence - 60)
                        + (IF signalConfidence >= 85 THEN 50 ELSE 0)
              ELSE IF result = "LOSS"
                   THEN (IF signalConfidence >= 85 THEN -100
                         ELSE IF signalConfidence >= 75 THEN -50 ELSE 0)
                        + (IF signalConfidence >= 80 THEN -30 ELSE 0)
              ELSE 0
      stab == IF marketConditions = NULL THEN 50
              ELSE IF marketConditions.stability = 0 THEN 50
              ELSE marketConditions.stability
      mkt  == IF marketConditions = NULL THEN 0
              ELSE IF result = "WIN" /\ stab > 70 THEN 20
              ELSE IF result = "LOSS" /\ stab < 30 THEN 10
              ELSE 0
      vol  == IF r.lastRiskSnapshot = NOTHING THEN 0
              ELSE IF result = "WIN" /\ r.lastRiskSnapshot = "HIGH" THEN 15
              ELSE IF result = "LOSS" /\ r.lastRiskSnapshot = "EXTREME" THEN 5
              ELSE 0
  IN base + conf + mkt + vol

\* calculateReward: counters, streak, cumulative reward, epsilon decay.
calculateReward(r, result, signalConfidence, marketConditions) ==
  LET reward == rewardOf(r, result, signalConfidence, marketConditions)
      total  == r.totalExperiences + 1
      streak == IF result = "WIN" THEN Max(0, r.currentStreak) + 1
                ELSE IF result = "LOSS" THEN Min(0, r.currentStreak) - 1
                ELSE r.currentStreak
  IN [r EXCEPT
        !.currentStreak = streak,
        !.sessionWins = IF result = "WIN" THEN @ + 1 ELSE @,
        !.maxStreak = IF result = "WIN" THEN Max(@, streak) ELSE @,
        !.sessionLosses = IF result = "LOSS" THEN @ + 1 ELSE @,
        !.cumulativeReward = @ + reward,
        !.totalExperiences = total,
        !.epsilon = IF r.epsilon > EPSILON_MIN
                    THEN (IF total > 100 THEN (r.epsilon * 997) \div 1000
                          ELSE (r.epsilon * 9995) \div 10000)
                    ELSE r.epsilon]

\* Variant for comparison: a full buffer that refuses the new experience.
replayAddKeepingOldest(buffer, maxSize, experience) ==
  IF Len(buffer) >= maxSize THEN buffer ELSE Append(buffer, experience)

\* ExperienceReplayBuffer.add: append, evict the oldest past maxSize.
replayAdd(buffer, maxSize, experience) ==
  LET pushed == Append(buffer, experience)
  IN IF Len(pushed) > maxSize THEN Tail(pushed) ELSE pushed

\* ExperienceReplayBuffer.sample: the batches the random draws can give,
\* batchSize distinct indices in the order they were drawn.
sample(buffer, batchSize) ==
  IF Len(buffer) < batchSize THEN {<<>>}
  ELSE {[k \in 1..batchSize |-> buffer[idx[k]]] :
          idx \in {f \in [1..batchSize -> 1..Len(buffer)] :
                     \A i, j \in 1..batchSize : i # j => f[i] # f[j]}}

canTrain(buffer) == Len(buffer) >= MIN_EXPERIENCES

\* learnFromExperience: store, then one training step when canTrain() and
\* the sampled batch is not empty (the network weights are not part of the
\* state; trainSteps counts the calls of train).
learnFromExperience(r, state, action, reward, nextState, done) ==
  LET stored == replayAdd(r.replay, r.replayMaxSize,
                          [state |-> state, action |-> action, reward |-> reward,
                           nextState |-> nextState, done |-> done])
  IN [r EXCEPT !.replay = stored,
               !.trainSteps = IF canTrain(stored) /\ Len(stored) >= BATCH_SIZE
                              THEN @ + 1 ELSE @]

\* encodeState: the vector is the input's state id; the side effect is the
\* risk snapshot (rl-integration.js:141).
encodeState(r, obs) ==
  [r EXCEPT !.lastRiskSnapshot = IF obs.risk = NOTHING THEN @ ELSE obs.risk]

\* The StateVector of encodeState in thousandths, components 0..15.  ind
\* supplies the components computed from the series and the regime
\* descriptor (values within [0, 1] only), the time of day and the regime
\* stability.  Components 10 and 11 are computed from the session counters:
\* the win rate and 0.5 + currentStreak / 20.
stateVector(r, candleCount, ind) ==
  [i \in 0..(STATE_DIMENSION - 1) |->
     IF candleCount < 50 THEN 500
     ELSE IF i = 8 THEN ind.timeOfDay
     ELSE IF i = 9 THEN ind.stability * 10
     ELSE IF i = 10
     THEN (IF r.sessionWins + r.sessionLosses > 0
           THEN (r.sessionWins * 1000) \div (r.sessionWins + r.sessionLosses)
           ELSE 500)
     ELSE IF i = 11 THEN 500 + r.currentStreak * 50
     ELSE ind.series]

\* getRecommendedAction: encode, select, store the learning pair.
getRecommendedAction(r, obs) ==
  [encodeState(r, obs) EXCEPT
     !.lastState = obs.state,
     !.lastAction = obs.actionIndex,
     !.lastQAdvantage = obs.qAdvantage]

\* The confidence getRecommendedAction returns.
recommendedConfidence(r, obs) ==
  Clamp(RoundDiv(obs.qConfidence * getBanditWeight(r, obs.actionIndex), 2000), 40, 95)

setLearningState(r, state, action) ==
  [r EXCEPT !.lastState = state, !.lastAction = action]

onSignalVerified(r, result, signalConfidence, vobs) ==
  IF r.lastState = NONE \/ r.lastAction = NONE THEN r
  ELSE LET r1 == calculateReward(r, result, signalConfidence,
                                 [stability |-> vobs.stability])
           reward == rewardOf(r, result, signalConfidence,
                              [stability |-> vobs.stability])
           r2 == encodeState(r1, vobs)
           r3 == learnFromExperience(r2, r.lastState, r.lastAction, reward,
                                     vobs.state, TRUE)
           r4 == updateBanditWeight(r3, r.lastAction, result,
                                    IF signalConfidence = 0 THEN 70
                                    ELSE signalConfidence)
       IN [r4 EXCEPT !.lastState = NONE, !.lastAction = NONE]

InitRL ==
  [epsilon |-> EPSILON,
   sessionWins |-> 0, sessionLosses |-> 0, currentStreak |-> 0,
   maxStreak |-> 0, cumulativeReward |-> 0, totalExperiences |-> 0,
   banditWeights |-> [g \in {} |-> 0], lastState |-> NONE, lastAction |-> NONE,
   lastQAdvantage |-> 0, lastRiskSnapshot |-> NOTHING, replay |-> <<>>,
   replayMaxSize |-> BUFFER_SIZE, trainSteps |-> 0]

(***************************************************************************)
(* SignalTimingController.  windowStartTime and Date.now() are folded into *)
(* windowElapsed = Date.now() - windowStartTime (NONE while                *)
(* windowStartTime is null).                                               *)
(***************************************************************************)
MIN_DELAY_MS == 60000
MAX_DELAY_MS == 300000

InitSTC ==
  [windowElapsed |-> NONE, pendingSignal |-> NULL, initialConfidence |-> NONE,
   evaluationIntervalId |-> FALSE]

startTimingWindow(s, signalData) ==
  IF signalData = NULL THEN s
  ELSE [s EXCEPT !.pendingSignal = [action |-> signalData.action,
                                    initialPrice |-> signalData.price],
                 !.initialConfidence = NONE,
                 !.windowElapsed = 0,
                 !.evaluationIntervalId = TRUE]

hasExpired(s) ==
  IF s.windowElapsed = NONE THEN FALSE ELSE s.windowElapsed >= MAX_DELAY_MS

getElapsedTime(s) == IF s.windowElapsed = NONE THEN 0 ELSE s.windowElapsed

getRemainingTime(s) ==
  IF s.windowElapsed = NONE THEN MAX_DELAY_MS
  ELSE Max(0, MAX_DELAY_MS - s.windowElapsed)

\* Variants for comparison: a stop that only clears the timer, and an
\* evaluation that notifies only after the maximum delay has been exceeded.
stopEvaluationOnly(s) == [s EXCEPT !.evaluationIntervalId = FALSE]

evaluationEventPastMax(s) ==
  IF s.windowElapsed = NONE \/ s.pendingSignal = NULL THEN "none"
  ELSE IF s.windowElapsed > MAX_DELAY_MS THEN "EXPIRED"
  ELSE "none"

stopTimingWindow(s) ==
  [s EXCEPT !.evaluationIntervalId = FALSE, !.windowElapsed = NONE,
            !.pendingSignal = NULL, !.initialConfidence = NONE]

isActive(s) == s.windowElapsed # NONE /\ s.pendingSignal # NULL

getPendingSignal(s) == s.pendingSignal

\* The callback of the evaluation interval: the event it passes to the
\* timing callback, "none" when it returns without calling it.
evaluationEvent(s) ==
  IF s.windowElapsed = NONE \/ s.pendingSignal = NULL THEN "none"
  ELSE IF s.windowElapsed < MIN_DELAY_MS THEN "none"
  ELSE IF s.windowElapsed >= MAX_DELAY_MS THEN "EXPIRED"
  ELSE "none"

(***************************************************************************)
(* Content script: state and helpers.  gateRejectStreak and lastRegime are *)
(* written but never read by the modelled handlers and are left out.       *)
(***************************************************************************)
WARMUP_CANDLES == 50

InitCS ==
  [ohlcM1 |-> <<>>, lastPrice |-> NONE, warmupComplete |-> FALSE,
   lastSignal |-> NULL, pendingSignalData |-> NULL, signalLocked |-> FALSE,
   signalVerificationTimeouts |-> {}, lastFeedCheck |-> FALSE,
   cachedSeries |-> NULL, cachedVersion |-> NONE]

latestVersion(c) ==
  IF Len(c.ohlcM1) > 0 THEN c.ohlcM1[Len(c.ohlcM1)].t ELSE NONE

\* A refresh that trusts the version: the arrays are rebuilt only when the
\* time of the latest candle differs from the cached one.
refreshSeriesOnNewCandle(c) ==
  IF c.cachedSeries # NULL
     /\ c.cachedVersion = (IF Len(c.ohlcM1) > 0 THEN c.ohlcM1[Len(c.ohlcM1)].t
                           ELSE NONE)
  THEN c
  ELSE [c EXCEPT !.cachedSeries =
                   [closes |-> [i \in 1..Len(c.ohlcM1) |-> c.ohlcM1[i].c],
                    highs  |-> [i \in 1..Len(c.ohlcM1) |-> c.ohlcM1[i].h],
                    lows   |-> [i \in 1..Len(c.ohlcM1) |-> c.ohlcM1[i].l],
                    opens  |-> [i \in 1..Len(c.ohlcM1) |-> c.ohlcM1[i].o],
                    candles |-> c.ohlcM1],
                 !.cachedVersion = (IF Len(c.ohlcM1) > 0
                                    THEN c.ohlcM1[Len(c.ohlcM1)].t ELSE NONE)]

refreshSeries(c) ==
  [c EXCEPT !.cachedSeries =
              [closes |-> [i \in 1..Len(c.ohlcM1) |-> c.ohlcM1[i].c],
               highs  |-> [i \in 1..Len(c.ohlcM1) |-> c.ohlcM1[i].h],
               lows   |-> [i \in 1..Len(c.ohlcM1) |-> c.ohlcM1[i].l],
               opens  |-> [i \in 1..Len(c.ohlcM1) |-> c.ohlcM1[i].o],
               candles |-> c.ohlcM1],
            !.cachedVersion = latestVersion(c)]

getSeries(c) ==
  IF c.cachedSeries = NULL \/ c.cachedVersion # latestVersion(c)
  THEN refreshSeries(c) ELSE c

\* updateStatusDisplay reaches the series cache through getRiskSummary.
updateStatusDisplay(w) ==
  IF Len(w.cs.ohlcM1) < 20 THEN w ELSE [w EXCEPT !.cs = getSeries(w.cs)]

\* updateUI: with no signal to show and a window in its last second, the
\* window is reset and a new analysis is scheduled 500 ms later.
updateUI(w, signals) ==
  LET w1 == updateStatusDisplay(w)
      remainingSec == getRemainingTime(w1.stc) \div 1000
      elapsedSec   == getElapsedTime(w1.stc) \div 1000
  IN IF ~w1.cs.warmupComplete THEN w1
     ELSE IF Len(signals) = 0 /\ isActive(w1.stc)
             /\ (remainingSec <= 1 \/ elapsedSec >= 299)
     THEN [w1 EXCEPT !.stc = stopTimingWindow(@),
                     !.cs.pendingSignalData = NULL,
                     !.cs.signalLocked = FALSE,
                     !.timers.prepare = @ \cup {"uiReset"},
                     !.hist.clearedBy = "updateUI"]
     ELSE w1

prepareSignalForTiming(w) ==
  IF ~w.cs.warmupComplete THEN w
  ELSE IF Len(w.cs.ohlcM1) < 50 THEN w
  ELSE IF w.cs.signalLocked THEN w
  ELSE LET c1 == getSeries(w.cs)
           closes == c1.cachedSeries.closes
           fallbackPrice == IF c1.lastPrice # NONE /\ c1.lastPrice # 0
                            THEN c1.lastPrice
                            ELSE IF Len(closes) > 0 THEN closes[Len(closes)]
                            ELSE NONE
           pending == [action |-> "TBD", price |-> fallbackPrice,
                       expiry |-> 300, minutes |-> 5]
           w1 == [w EXCEPT
                    !.cs = [c1 EXCEPT !.pendingSignalData = pending,
                                      !.signalLocked = TRUE],
                    !.hist.startWhileActive = @ \/ isActive(w.stc),
                    !.hist.windowsOpened = @ + 1,
                    !.hist.clearedBy = "open",
                    !.stc = startTimingWindow(w.stc, pending)]
       IN updateUI(w1, <<>>)

\* Variant for comparison: a cancel that also drops the last signal and
\* the timers scheduled for it.
cancelDroppingSignal(w) ==
  LET w1 == [w EXCEPT !.stc = stopTimingWindow(@),
                      !.cs.pendingSignalData = NULL,
                      !.cs.signalLocked = FALSE,
                      !.cs.lastSignal = NULL,
                      !.timers.verification = {},
                      !.hist.clearedBy = "cancel"]
  IN updateUI(w1, <<>>)

cancelPendingSignal(w) ==
  LET w1 == [w EXCEPT !.stc = stopTimingWindow(@),
                      !.cs.pendingSignalData = NULL,
                      !.cs.signalLocked = FALSE,
                      !.hist.clearedBy = "cancel"]
  IN updateUI(w1, <<>>)

(***************************************************************************)
(* publishPendingSignal.  obs is what the indicator arithmetic yields on   *)
(* the current series: the encoded state, the agent's choice, the Q-value  *)
(* confidence and advantage, each group's proposal, the fallback group's   *)
(* confidence and the result of the strict and the relaxed gates.          *)
(***************************************************************************)
Proposing(obs) == {g \in Groups : obs.proposals[g] # "NONE"}

\* The first group of the registry that proposes an action (fallback scan).
firstProposing(obs) == CHOOSE g \in Proposing(obs) : \A h \in Proposing(obs) : g <= h

\* finalSignal: the agent's group if it proposes, else the fallback scan.
finalSignalOf(r, obs) ==
  IF obs.proposals[obs.actionIndex] # "NONE"
  THEN [action |-> obs.proposals[obs.actionIndex],
        confidence |-> recommendedConfidence(r, obs),
        groupId |-> obs.actionIndex,
        qAdvantage |-> obs.qAdvantage]
  ELSE IF Proposing(obs) # {}
  THEN [action |-> obs.proposals[firstProposing(obs)],
        confidence |-> IF obs.groupConfidence = 0 THEN 70 ELSE obs.groupConfidence,
        groupId |-> firstProposing(obs),
        qAdvantage |-> 0]
  ELSE NULL

\* gateScore in hundredths: 1, 0.65 or 0.45.
gateScoreOf(gate) == IF gate = "pass" THEN 100 ELSE IF gate = "soft" THEN 65 ELSE 45

\* Math.round(confidence * (0.6 + 0.4 * gateScore)), clamped to [40, 95],
\* and capped at 74 when the strict gates failed.
gateAdjusted(confidence, gate) ==
  LET factor == 6000 + 40 * gateScoreOf(gate)
      adjusted == Clamp(RoundDiv(confidence * factor, 10000), 40, 95)
  IN IF gate # "pass" THEN Min(adjusted, 74) ELSE adjusted

\* The branch on canElevate, when the identifier is bound.
elevated(adjusted, canElevate, qAdv, banditWeight) ==
  IF canElevate
  THEN LET edgeBoost == Min(20, RoundDiv(qAdv * 25, 100)
                                + RoundDiv((banditWeight - 2000) * 15, 2000))
       IN Max(adjusted, Min(95, 72 + edgeBoost))
  ELSE Min(adjusted, 74)

SETTLE_MARGIN_MS == 15000

\* Statements of publishPendingSignal after line 684: build the record,
\* publish, stop the window, schedule the verification.
completePublish(w, finalSignal, confidence) ==
  LET signalId == w.env.now
      signal == [action |-> finalSignal.action,
                 groupId |-> finalSignal.groupId,
                 confidence |-> confidence,
                 price |-> IF w.cs.lastPrice # NONE /\ w.cs.lastPrice # 0
                           THEN w.cs.lastPrice ELSE w.cs.pendingSignalData.price,
                 expiry |-> w.cs.pendingSignalData.expiry,
                 minutes |-> w.cs.pendingSignalData.minutes,
                 timestamp |-> signalId,
                 rlState |-> w.rl.lastState,
                 rlAction |-> w.rl.lastAction]
      w1 == updateUI([w EXCEPT !.cs.lastSignal = signal], <<signal>>)
      expirySeconds == IF signal.expiry # 0 THEN signal.expiry
                       ELSE (IF signal.minutes # 0 THEN signal.minutes ELSE 5) * 60
  IN [w1 EXCEPT
        !.feed = [timestamp |-> signal.timestamp, action |-> signal.action,
                  confidence |-> signal.confidence, result |-> NOTHING],
        !.stc = stopTimingWindow(@),
        !.cs.pendingSignalData = NULL,
        !.timers.verification =
            {t \in @ : ~(t.id = signalId /\ t.stage = "expiry"
                         /\ signalId \in w.cs.signalVerificationTimeouts)}
            \cup {[id |-> signalId, stage |-> "expiry",
                   delay |-> expirySeconds * 1000 + SETTLE_MARGIN_MS]},
        !.cs.signalVerificationTimeouts = @ \cup {signalId},
        !.cs.lastFeedCheck = TRUE,
        !.hist.feedIntervals = IF w.cs.lastFeedCheck THEN @ ELSE @ + 1,
        !.env.now = @ + 1,
        !.hist.clearedBy = "publish",
        !.hist.published = @ + 1,
        !.hist.publish = [outcome |-> "published",
                          bit |-> 1 - w.hist.publish.bit]]

\* Lines 507-559 and 663-672 for a signal that exists: the confidence
\* getRecommendedAction returned, the one that enters the gate adjustment
\* after the multiplication of line 557, and the gate-adjusted one.
gateEntryOf(r, obs) ==
  LET r1 == getRecommendedAction(r, obs)
      finalSignal == finalSignalOf(r, obs)
      banditWeight == getBanditWeight(r1, finalSignal.groupId)
      weighted == Clamp(RoundDiv(finalSignal.confidence * banditWeight, 2000), 40, 95)
  IN [returned |-> recommendedConfidence(r, obs),
      entering |-> weighted,
      adjusted |-> gateAdjusted(weighted, obs.gate)]

publishPendingSignal(w, obs) ==
  IF w.cs.pendingSignalData = NULL THEN w
  ELSE
    LET c1 == getSeries(w.cs)
        r1 == getRecommendedAction(w.rl, obs)
        w1 == [w EXCEPT !.cs = c1, !.rl = r1]
        finalSignal == finalSignalOf(w.rl, obs)
    IN IF finalSignal = NULL
       THEN [w1 EXCEPT !.cs.signalLocked = FALSE,
                       !.cs.pendingSignalData = NULL,
                       !.hist.clearedBy = "noAction",
                       !.hist.publish = [outcome |-> "noAction",
                                         bit |-> 1 - w.hist.publish.bit]]
       ELSE
         LET banditWeight == getBanditWeight(r1, finalSignal.groupId)
             adjusted == gateEntryOf(w.rl, obs).adjusted
         IN IF w.env.canElevate = "unbound"
            THEN \* ReferenceError at line 677: the handler ends here.
                 [w1 EXCEPT !.hist.publish = [outcome |-> "threw",
                                              bit |-> 1 - w.hist.publish.bit]]
            ELSE completePublish(w1, finalSignal,
                   elevated(adjusted, w.env.canElevate = "true",
                            r1.lastQAdvantage, banditWeight))

(***************************************************************************)
(* Outcome verification.  vobs is what the series yields when the outcome  *)
(* arrives: the next encoded state, the risk level, the regime stability.  *)
(***************************************************************************)
\* Variants of the two blocks of verifySignal below, for comparison: learning
\* from the agent's current pair, and releasing the lock alone.
learnFromCurrentPair(r, signalToVerify, result, vobs) ==
  calculateReward(onSignalVerified(r, result, signalToVerify.confidence, vobs),
                  result, signalToVerify.confidence, NULL)

releaseLockOnly(c) == [c EXCEPT !.signalLocked = FALSE]

\* Lines 1131-1152: restore the captured pair, learn, compute the reward.
learnFromOutcome(r, signalToVerify, result, vobs) ==
  LET r1 == IF signalToVerify.rlState # NONE /\ signalToVerify.rlAction # NONE
            THEN setLearningState(r, signalToVerify.rlState, signalToVerify.rlAction)
            ELSE r
      r2 == onSignalVerified(r1, result, signalToVerify.confidence, vobs)
  IN calculateReward(r2, result, signalToVerify.confidence, NULL)

\* A release that leaves the lock set.
releaseSignalOnly(c) == [c EXCEPT !.lastSignal = NULL]

\* Lines 1186-1187.
releaseSignal(c) == [c EXCEPT !.signalLocked = FALSE, !.lastSignal = NULL]

verifySignal(w, outcome, vobs) ==
  IF w.cs.lastSignal = NULL THEN w
  ELSE IF outcome \notin {"WIN", "LOSS"} THEN w
  ELSE
    LET signalToVerify == w.cs.lastSignal
        r3 == learnFromOutcome(w.rl, signalToVerify, outcome, vobs)
        signalId == signalToVerify.timestamp
        tracked == signalId \in w.cs.signalVerificationTimeouts
    IN [w EXCEPT
          !.rl = r3,
          !.env.saved = IF r3.totalExperiences % 10 = 0 THEN r3.totalExperiences ELSE @,
          !.timers.verification =
              IF tracked THEN {t \in @ : ~(t.id = signalId /\ t.stage = "expiry")}
              ELSE @,
          !.cs = releaseSignal([@ EXCEPT !.signalVerificationTimeouts = @ \ {signalId}]),
          !.timers.prepare = @ \cup {"verified"},
          !.hist.verified = @ + 1,
          !.hist.restored = @ \/ w.rl.lastState # signalToVerify.rlState
                              \/ w.rl.lastAction # signalToVerify.rlAction,
          !.hist.onSignalVerifiedCalls = Bump(@, signalId)]

\* autoVerifySignal: move is the price at expiry against the entry price,
\* "none" when no price can be read for the expiry time.  Returns the world
\* and whether an outcome was found.
autoOutcome(signal, move) ==
  IF move = "none" THEN NOTHING
  ELSE IF signal.action = "BUY" THEN (IF move = "up" THEN "WIN" ELSE "LOSS")
  ELSE IF signal.action = "SELL" THEN (IF move = "down" THEN "WIN" ELSE "LOSS")
  ELSE NOTHING

autoVerifySignal(w, signal, move, vobs) ==
  IF signal = NULL THEN w
  ELSE IF autoOutcome(signal, move) = NOTHING THEN w
  ELSE verifySignal(w, autoOutcome(signal, move), vobs)

\* checkAutoTraderResults: a result stored in the feed for the current signal.
checkAutoTraderResults(w, vobs) ==
  IF w.feed = NULL THEN w
  ELSE IF w.feed.result # NOTHING /\ w.cs.lastSignal # NULL
          /\ w.feed.timestamp = w.cs.lastSignal.timestamp
  THEN verifySignal(w, w.feed.result, vobs)
  ELSE w

current(w, signalId) ==
  w.cs.lastSignal # NULL /\ w.cs.lastSignal.timestamp = signalId

\* The callback of the verification timeout (expiry + 15 s).
onVerificationTimeout(w, signalId, vobs) ==
  LET w1 == IF current(w, signalId) THEN checkAutoTraderResults(w, vobs) ELSE w
      w2 == IF current(w, signalId) /\ w1.cs.signalLocked /\ current(w1, signalId)
            THEN [w1 EXCEPT !.timers.verification =
                               @ \cup {[id |-> signalId, stage |-> "settle"]}]
            ELSE w1
  IN [w2 EXCEPT !.cs.signalVerificationTimeouts = @ \ {signalId}]

\* The nested 5 s callback: auto-verify, else retry 10 s later.
onSettleTimeout(w, signalId, move, vobs) ==
  IF w.cs.signalLocked /\ current(w, signalId)
  THEN IF autoOutcome(w.cs.lastSignal, move) # NOTHING
       THEN autoVerifySignal(w, w.cs.lastSignal, move, vobs)
       ELSE [w EXCEPT !.timers.verification =
                         @ \cup {[id |-> signalId, stage |-> "retry"]}]
  ELSE w

\* The nested 10 s callback: auto-verify, else unlock anyway.
onRetryTimeout(w, signalId, move, vobs) ==
  IF w.cs.signalLocked /\ current(w, signalId)
  THEN IF autoOutcome(w.cs.lastSignal, move) # NOTHING
       THEN autoVerifySignal(w, w.cs.lastSignal, move, vobs)
       ELSE [w EXCEPT !.cs.signalLocked = FALSE,
                      !.cs.lastSignal = NULL,
                      !.timers.prepare = @ \cup {"forceUnlock"},
                      !.hist.forceUnlocked = TRUE]
  ELSE w

(***************************************************************************)
(* pushTick, timer callbacks and message handlers.                         *)
(***************************************************************************)
\* warmupBanditFromHistory: each proposing group is scored against the
\* direction of the last close.
RECURSIVE warmupBandit(_, _, _)
warmupBandit(r, obs, gs) ==
  IF gs = {} THEN r
  ELSE LET g == CHOOSE x \in gs : \A y \in gs : x <= y
           win == (obs.proposals[g] = "BUY" /\ obs.move = "up")
                  \/ (obs.proposals[g] = "SELL" /\ obs.move = "down")
           r1 == IF obs.proposals[g] = "NONE" THEN r
                 ELSE updateBanditWeight(r, g, IF win THEN "WIN" ELSE "LOSS",
                        IF obs.groupConfidence = 0 THEN 70 ELSE obs.groupConfidence)
       IN warmupBandit(r1, obs, gs \ {g})

warmupBanditFromHistory(r, ohlcData, obs) ==
  IF Len(ohlcData) < 30 THEN r ELSE warmupBandit(r, obs, Groups)

\* The reference aggregation of the accepted ticks, by minute bucket.
observe(h, timestamp, price) ==
  LET bucket == (timestamp \div 60000) * 60000
      seen == bucket \in DOMAIN h.buckets
      entry == IF seen
               THEN [first |-> h.buckets[bucket].first, last |-> price,
                     max |-> Max(h.buckets[bucket].max, price),
                     min |-> Min(h.buckets[bucket].min, price)]
               ELSE [first |-> price, last |-> price, max |-> price, min |-> price]
  IN [h EXCEPT !.buckets = [b \in (DOMAIN h.buckets) \cup {bucket} |->
                              IF b = bucket THEN entry ELSE h.buckets[b]],
               !.inOrder = h.inOrder /\ (h.lastTs = NONE \/ bucket >= h.lastTs),
               !.lastTs = bucket]

\* Prices are integers; three codes stand for the non-finite numbers.  The
\* infinities compare as the largest and the smallest number, as in IEEE 754;
\* NaN never reaches a comparison (the guard of pushTick returns on it).
PosInfinity == 1000000
NegInfinity == -1000000
NaN == -999999

\* !price || isNaN(price)
rejected(price) == price = 0 \/ price = NaN

\* Variant for comparison: the count alone, without the flag.
warmupDueByCount(c) == Len(c.ohlcM1) >= WARMUP_CANDLES

\* !warmupComplete && ohlcM1.length >= WARMUP_CANDLES
warmupDue(c) == ~c.warmupComplete /\ Len(c.ohlcM1) >= WARMUP_CANDLES

pushTick(w, timestamp, price, obs) ==
  IF rejected(price) THEN w
  ELSE
    LET w0 == updateStatusDisplay([w EXCEPT !.cs.lastPrice = price,
                                            !.hist = observe(@, timestamp, price)])
        candleTime == (timestamp \div 60000) * 60000
        lastCandle == getLastCandle(w0.circularBuffer)
        isNew == IF lastCandle = NULL THEN TRUE ELSE lastCandle.t < candleTime
        buf == IF isNew
               THEN push(w0.circularBuffer,
                         [t |-> candleTime, o |-> price, h |-> price,
                          l |-> price, c |-> price])
               ELSE updateLast(w0.circularBuffer,
                         [h |-> Max(lastCandle.h, price),
                          l |-> Min(lastCandle.l, price), c |-> price])
        c1 == refreshSeries([w0.cs EXCEPT !.ohlcM1 = toArray(buf)])
        w1 == [w0 EXCEPT !.circularBuffer = buf, !.cs = c1]
        w2 == IF isNew /\ warmupDue(c1)
              THEN updateUI([w1 EXCEPT
                               !.cs.warmupComplete = TRUE,
                               !.rl = warmupBanditFromHistory(@, c1.ohlcM1, obs),
                               !.hist.warmupCalls = @ + 1],
                            <<>>)
              ELSE updateStatusDisplay(w1)
    IN IF w2.cs.warmupComplete /\ ~w2.cs.signalLocked
          /\ w2.cs.pendingSignalData = NULL /\ ~isActive(w2.stc)
       THEN prepareSignalForTiming(w2)
       ELSE w2

\* biasAgainst of monitorTimingWindow: bias is where the last close lies
\* relative to the Bollinger middle band and EMA21.
biasAgainst(action, bias) ==
  IF action = "BUY" THEN bias = "belowBoth"
  ELSE IF action = "SELL" THEN bias = "aboveBoth"
  ELSE FALSE

updateTimingStatus(w) == IF isActive(w.stc) THEN updateUI(w, <<>>) ELSE w

monitorTimingWindow(w, obs) ==
  IF w.cs.pendingSignalData = NULL THEN w
  ELSE LET w1 == [w EXCEPT !.cs = getSeries(@)]
           pending == w1.cs.pendingSignalData
       IN IF pending.action # "TBD" /\ Len(w1.cs.cachedSeries.closes) >= 2
             /\ biasAgainst(pending.action, obs.bias)
          THEN cancelPendingSignal(w1)
          ELSE IF hasExpired(w1.stc) THEN publishPendingSignal(w1, obs)
          ELSE IF ~isActive(w1.stc) THEN w1
          ELSE updateTimingStatus(w1)

\* timingMonitorInterval (5 s).
onMonitorInterval(w, obs) ==
  IF ~w.cs.warmupComplete THEN w
  ELSE IF w.cs.pendingSignalData # NULL THEN monitorTimingWindow(w, obs)
  ELSE IF ~w.cs.signalLocked THEN prepareSignalForTiming(w)
  ELSE w

\* The controller's evaluation interval (20 s) with the callback start() sets.
onEvaluationInterval(w, obs) ==
  IF evaluationEvent(w.stc) = "EXPIRED" THEN monitorTimingWindow(w, obs) ELSE w

\* The setTimeout callbacks that start a new analysis.
onPrepareTimeout(w, kind) ==
  LET w1 == [w EXCEPT !.timers.prepare = @ \ {kind}]
  IN IF kind = "verified" THEN prepareSignalForTiming(w1)
     ELSE IF kind = "initial"
     THEN (IF w1.cs.warmupComplete /\ ~w1.cs.signalLocked
              /\ w1.cs.pendingSignalData = NULL
           THEN prepareSignalForTiming(w1) ELSE w1)
     ELSE (IF ~w1.cs.signalLocked /\ w1.cs.pendingSignalData = NULL
           THEN prepareSignalForTiming(w1) ELSE w1)

\* lastFeedCheck interval (5 s).
onFeedInterval(w, vobs) ==
  IF w.cs.signalLocked /\ w.cs.lastSignal # NULL
  THEN checkAutoTraderResults(w, vobs) ELSE w

(***************************************************************************)
(* Inputs.  An observation is what the environment supplies to a handler:  *)
(* the indicator arithmetic on the current series and the realised price.  *)
(***************************************************************************)
StateIds == 1..MaxStateId
Proposals == {"BUY", "SELL", "NONE"}
GateResults == {"pass", "soft", "fail"}
Biases == {"belowBoth", "aboveBoth", "none"}
Moves == {"up", "down", "none"}
Outcomes == {"WIN", "LOSS", "DRAW"}
Stabilities == {50, 80}

QuietObs ==
  [state |-> 1, actionIndex |-> 0, qConfidence |-> 75, qAdvantage |-> 0,
   risk |-> "BALANCED", proposals |-> [g \in Groups |-> "NONE"],
   groupConfidence |-> 70, gate |-> "pass", bias |-> "none", move |-> "none",
   stability |-> 50]

PublishInputs ==
  {[QuietObs EXCEPT !.state = s, !.actionIndex = a, !.proposals = p, !.gate = g] :
     s \in StateIds, a \in Groups, p \in [Groups -> Proposals], g \in GateResults}

\* What a monitoring step reads: the bias while a window is open, and the
\* publish inputs once it has expired.
MonitorInputs ==
  IF cs.pendingSignalData = NULL THEN {QuietObs}
  ELSE IF hasExpired(stc)
  THEN {[o EXCEPT !.bias = b] : o \in PublishInputs, b \in Biases}
  ELSE {[QuietObs EXCEPT !.bias = b] : b \in Biases}

VerifyInputs ==
  IF cs.lastSignal = NULL THEN {QuietObs}
  ELSE {[QuietObs EXCEPT !.state = 1, !.stability = st] : st \in Stabilities}

WarmupInputs ==
  IF Len(cs.ohlcM1) + 1 = WARMUP_CANDLES
  THEN {[QuietObs EXCEPT !.proposals[0] = p, !.move = "up"] : p \in Proposals}
  ELSE {QuietObs}

\* Ticks of the running system: one per minute until the warmup count is
\* reached, then ticks within the current minute.
LiveTickTimes ==
  IF Len(cs.ohlcM1) = 0 THEN {0}
  ELSE IF Len(cs.ohlcM1) < WARMUP_CANDLES
  THEN {cs.ohlcM1[Len(cs.ohlcM1)].t + 60000}
  ELSE {cs.ohlcM1[Len(cs.ohlcM1)].t}

\* Ticks of the aggregation check: any order, any minute, valid or not.
TickTimes == {m * 60000 + s : m \in 0..MaxMinute, s \in {0, 10000}}
TickPrices == 0..MaxPrice

\* Values of Date.now() - windowStartTime at which callbacks run.
ElapsedPoints == {0, 30000, 100000, 298500, 300000}

(***************************************************************************)
(* Initial state: the content script after start(), nothing received yet.  *)
(* canElevate is a free identifier of content.js.backup:677; it is looked  *)
(* up on the global object, which no file of the repository defines.       *)
(***************************************************************************)
InitHist ==
  [buckets |-> [b \in {} |-> 0], lastTs |-> NONE, inOrder |-> TRUE, nTicks |-> 0,
   windowsOpened |-> 0, startWhileActive |-> FALSE, clearedBy |-> "none",
   published |-> 0, publish |-> [outcome |-> "none", bit |-> 0],
   verified |-> 0, onSignalVerifiedCalls |-> [i \in {} |-> 0],
   restored |-> FALSE, forceUnlocked |-> FALSE, nInvalid |-> 0,
   pushed |-> <<>>, offered |-> [ts |-> 0, price |-> 0], input |-> NULL,
   added |-> <<>>, batch |-> [size |-> 0, from |-> <<>>, batch |-> <<>>],
   warmupCalls |-> 0, nOutcomes |-> 0, nUpdates |-> 0, touched |-> {},
   lastUpdate |-> [group |-> NONE, result |-> NOTHING, before |-> NONE],
   nCalls |-> 0, event |-> [kind |-> "none", before |-> "idle", callback |-> "none"],
   reward |-> NULL, detected |-> <<>>,
   detect |-> [candles |-> NONE, before |-> NULL, returned |-> NULL],
   analysis |-> NULL, rsi |-> NULL, feedIntervals |-> 0, gateEntry |-> NULL,
   volatility |-> NULL, groupResult |-> NULL,
   train |-> NULL, engineStep |-> NULL]

Init ==
  /\ circularBuffer = NewCandleBuffer(MAX_CANDLES)
  /\ cs = InitCS
  /\ rl = InitRL
  /\ stc = InitSTC
  /\ timers = [verification |-> {}, prepare |-> {"initial"}]
  /\ feed = NULL
  /\ env \in [canElevate : {"unbound", "true", "false"}, now : {1}, saved : {0}]
  /\ hist = InitHist

\* A step to world w.  The bounds stop new windows from being opened; they
\* never disable a step that closes a window or releases the lock.
Step(result) ==
  \E w \in {result} :
    /\ w.hist.windowsOpened > hist.windowsOpened =>
          hist.windowsOpened < MaxWindows /\ hist.published < MaxPublished
    /\ Commit(w)

Tick ==
  \E ts \in LiveTickTimes, obs \in WarmupInputs :
    Step(pushTick(World, ts, 1, obs))

MonitorPoll ==
  \E obs \in MonitorInputs : Step(onMonitorInterval(World, obs))

EvaluationTick ==
  /\ stc.evaluationIntervalId
  /\ \E obs \in MonitorInputs : Step(onEvaluationInterval(World, obs))

PrepareTimeout ==
  \E kind \in timers.prepare : Step(onPrepareTimeout(World, kind))

VerificationTimeout ==
  \E t \in timers.verification, vobs \in VerifyInputs, move \in Moves :
    LET w == [World EXCEPT !.timers.verification = @ \ {t}]
    IN Step(IF t.stage = "expiry" THEN onVerificationTimeout(w, t.id, vobs)
            ELSE IF t.stage = "settle" THEN onSettleTimeout(w, t.id, move, vobs)
            ELSE onRetryTimeout(w, t.id, move, vobs))

FeedPoll ==
  /\ cs.lastFeedCheck
  /\ \E vobs \in VerifyInputs : Step(onFeedInterval(World, vobs))

\* chrome.runtime message VERIFY_SIGNAL.
ManualVerify ==
  \E outcome \in Outcomes, vobs \in VerifyInputs :
    Step(verifySignal(World, outcome, vobs))

\* An external verifier stores a result for the outstanding signal in the feed.
FeedResult ==
  /\ feed # NULL
  /\ feed.result = NOTHING
  /\ current(World, feed.timestamp)
  /\ \E result \in {"WIN", "LOSS"} :
       Step([World EXCEPT !.feed.result = result])

\* Another caller of the exported getRecommendedAction while a published
\* signal awaits its outcome (calls at other times are overwritten by the
\* next publish before anything reads them).
Recommend ==
  /\ cs.lastSignal # NULL
  /\ Step([World EXCEPT !.rl = getRecommendedAction(@,
             [QuietObs EXCEPT !.state = MaxStateId, !.actionIndex = NumGroups - 1])])

TimePasses ==
  /\ stc.windowElapsed # NONE
  /\ \E e \in ElapsedPoints :
       /\ e > stc.windowElapsed
       /\ Step([World EXCEPT !.stc.windowElapsed = e])

Next ==
  \/ Tick
  \/ MonitorPoll
  \/ EvaluationTick
  \/ PrepareTimeout
  \/ VerificationTimeout
  \/ FeedPoll
  \/ ManualVerify
  \/ FeedResult
  \/ Recommend
  \/ TimePasses

Spec == Init /\ [][Next]_vars

\* The interval and timeout callbacks of the event loop.
Timers ==
  \/ MonitorPoll
  \/ EvaluationTick
  \/ PrepareTimeout
  \/ VerificationTimeout
  \/ FeedPoll

\* Timers keep firing and time passes.  Ticks keep arriving as well, but no
\* step that releases the lock waits for one, and a tick within the current
\* minute at the same price leaves the state as it is.
FairSpec ==
  /\ Spec
  /\ WF_vars(Timers)
  /\ WF_vars(TimePasses)

(***************************************************************************)
(* The aggregation alone: ticks in any order into the candle buffer.       *)
(***************************************************************************)
CandleTick ==
  /\ hist.nTicks < MaxTicks
  /\ \E ts \in TickTimes, price \in TickPrices :
       \E w \in {pushTick(World, ts, price, QuietObs)} :
         Commit([w EXCEPT !.hist.nTicks = @ + 1])

CandleNext == CandleTick

CandleSpec == Init /\ [][CandleNext]_vars

(***************************************************************************)
(* The aggregation with prices that are not valid quotes: zero, negative   *)
(* and non-finite numbers offered to pushTick.                             *)
(***************************************************************************)
InvalidPrices == {0, -2, NaN, PosInfinity, NegInfinity}

InvalidTick ==
  /\ hist.nTicks < MaxTicks
  /\ \E ts \in TickTimes, price \in InvalidPrices :
       \E w \in {pushTick(World, ts, price, QuietObs)} :
         Commit([w EXCEPT !.hist.nTicks = @ + 1, !.hist.nInvalid = @ + 1])

AnyTickNext ==
  \/ CandleTick
  \/ InvalidTick

AnyTickSpec == Init /\ [][AnyTickNext]_vars

(***************************************************************************)
(* The aggregation fed as the tick interval feeds it: Date.now() never     *)
(* decreases from one tick to the next.  offered is the tick of the step.  *)
(***************************************************************************)
OrderedTick ==
  /\ hist.nTicks < MaxTicks
  /\ \E ts \in TickTimes, price \in TickPrices :
       /\ ts >= hist.offered.ts
       /\ \E w \in {pushTick(World, ts, price, QuietObs)} :
            Commit([w EXCEPT !.hist.nTicks = @ + 1,
                             !.hist.offered = [ts |-> ts, price |-> price]])

OrderedTickNext == OrderedTick

OrderedTickSpec == Init /\ [][OrderedTickNext]_vars

(***************************************************************************)
(* The CandleBuffer class alone, constructed with a small capacity.        *)
(***************************************************************************)
BufferInit ==
  /\ circularBuffer \in {NewCandleBuffer(c) : c \in 1..MaxCapacity}
  /\ cs = InitCS
  /\ rl = InitRL
  /\ stc = InitSTC
  /\ timers = [verification |-> {}, prepare |-> {}]
  /\ feed = NULL
  /\ env = [canElevate |-> "unbound", now |-> 1, saved |-> 0]
  /\ hist = InitHist

BufferPush ==
  /\ Len(hist.pushed) < MaxPushes
  /\ \E price \in 1..MaxPrice :
       LET candle == [t |-> Len(hist.pushed) * 60000, o |-> price, h |-> price,
                      l |-> price, c |-> price]
       IN /\ circularBuffer' = push(circularBuffer, candle)
          /\ hist' = [hist EXCEPT !.pushed = Append(@, candle)]
          /\ UNCHANGED <<cs, rl, stc, timers, feed, env>>

BufferNext == BufferPush

BufferSpec == BufferInit /\ [][BufferNext]_vars

(***************************************************************************)
(* The confidence of a published signal alone: the content script started  *)
(* with the bandit weights loadBanditWeights restored, warmed up by one    *)
(* tick a minute, its window run to expiry, and the publish step over the  *)
(* whole range of its inputs.  input is what the step observed: the gate   *)
(* result and whether the agent's group proposed.                          *)
(***************************************************************************)
\* Stored weights within the range updateBanditWeight keeps: 0.5, 1, 1.05, 2.
WeightSamples == {1000, 2000, 2100, 4000}
QConfidences == {60, 95}
QAdvantages == {0, 40}
GroupConfidences == {0, 90}

ConfidenceInputs ==
  {[QuietObs EXCEPT !.actionIndex = a, !.proposals = p, !.gate = g,
                    !.qConfidence = qc, !.qAdvantage = qa,
                    !.groupConfidence = gc] :
     a \in Groups, p \in [Groups -> Proposals], g \in GateResults,
     qc \in QConfidences, qa \in QAdvantages, gc \in GroupConfidences}

ConfidenceInit ==
  /\ circularBuffer = NewCandleBuffer(MAX_CANDLES)
  /\ cs = InitCS
  /\ rl \in {[InitRL EXCEPT !.banditWeights = weights] :
               weights \in [Groups -> WeightSamples]}
  /\ stc = InitSTC
  /\ timers = [verification |-> {}, prepare |-> {"initial"}]
  /\ feed = NULL
  /\ env \in [canElevate : {"unbound", "true", "false"}, now : {1}, saved : {0}]
  /\ hist = InitHist

ConfidencePublish ==
  /\ cs.pendingSignalData # NULL
  /\ hasExpired(stc)
  /\ \E obs \in ConfidenceInputs :
       \E w \in {monitorTimingWindow(World, obs)} :
         Commit([w EXCEPT !.hist.input =
                   [gate |-> obs.gate,
                    agentProposes |-> obs.proposals[obs.actionIndex] # "NONE"],
                          !.hist.gateEntry =
                   IF w.hist.publish # hist.publish
                      /\ finalSignalOf(rl, obs) # NULL
                   THEN gateEntryOf(rl, obs) ELSE hist.gateEntry])

ConfidenceNext ==
  \/ Tick
  \/ TimePasses
  \/ ConfidencePublish

ConfidenceSpec == ConfidenceInit /\ [][ConfidenceNext]_vars

(***************************************************************************)
(* The timing controller alone, driven through its interface: windows are  *)
(* started and stopped in any state, the evaluation interval fires while   *)
(* its timer runs, time passes.  event is the call of the step, the state  *)
(* of the controller before it and what the timing callback received.      *)
(***************************************************************************)
SignalSamples ==
  {[action |-> a, price |-> p, expiry |-> 300, minutes |-> 5] :
     a \in {"TBD", "BUY"}, p \in 1..MaxPrice}

phase(s) ==
  IF ~isActive(s) THEN "idle" ELSE IF hasExpired(s) THEN "expired" ELSE "open"

TimingStart ==
  /\ hist.nCalls < MaxCalls
  /\ \E signalData \in SignalSamples :
       Commit([World EXCEPT
                 !.stc = startTimingWindow(@, signalData),
                 !.hist.nCalls = @ + 1,
                 !.hist.event = [kind |-> "start", before |-> phase(stc),
                                 callback |-> "none"]])

TimingStop ==
  /\ hist.nCalls < MaxCalls
  /\ Commit([World EXCEPT
               !.stc = stopTimingWindow(@),
               !.hist.nCalls = @ + 1,
               !.hist.event = [kind |-> "stop", before |-> phase(stc),
                               callback |-> "none"]])

TimingEvaluate ==
  /\ hist.nCalls < MaxCalls
  /\ stc.evaluationIntervalId
  /\ Commit([World EXCEPT
               !.hist.nCalls = @ + 1,
               !.hist.event = [kind |-> "evaluate", before |-> phase(stc),
                               callback |-> evaluationEvent(stc)]])

TimingNext ==
  \/ TimingStart
  \/ TimingStop
  \/ TimingEvaluate
  \/ TimePasses

TimingSpec == Init /\ [][TimingNext]_vars

(***************************************************************************)
(* The running system with the cancellation taken, over two windows: one   *)
(* signal is published and verified or timed out, the next window is       *)
(* opened, and monitorTimingWindow calls cancelPendingSignal while a       *)
(* candidate is pending.  One group proposes BUY throughout.               *)
(***************************************************************************)
BuyObs == [QuietObs EXCEPT !.proposals[0] = "BUY"]

\* A step to world w, at most MaxWindows windows being opened.
BoundedStep(result) ==
  \E w \in {result} :
    /\ w.hist.windowsOpened > hist.windowsOpened => hist.windowsOpened < MaxWindows
    /\ Commit(w)

BuyMonitor == BoundedStep(onMonitorInterval(World, BuyObs))

BoundedPrepare ==
  \E kind \in timers.prepare : BoundedStep(onPrepareTimeout(World, kind))

CancelCall ==
  /\ cs.pendingSignalData # NULL
  /\ BoundedStep(cancelPendingSignal(World))

CancelNext ==
  \/ Tick
  \/ TimePasses
  \/ BuyMonitor
  \/ BoundedPrepare
  \/ VerificationTimeout
  \/ ManualVerify
  \/ CancelCall

CancelSpec == Init /\ [][CancelNext]_vars

(***************************************************************************)
(* The running system past the warmup: ticks keep opening minutes after    *)
(* the warmup count is reached, while windows open, expire and publish.    *)
(***************************************************************************)
WarmupTick ==
  /\ Len(cs.ohlcM1) < WARMUP_CANDLES + MaxExtraCandles
  /\ \E ts \in IF Len(cs.ohlcM1) = 0 THEN {0}
                ELSE {cs.ohlcM1[Len(cs.ohlcM1)].t + 60000},
        p \in Proposals :
       BoundedStep(pushTick(World, ts, 1,
                            [QuietObs EXCEPT !.proposals[0] = p, !.move = "up"]))

WarmupNext ==
  \/ WarmupTick
  \/ TimePasses
  \/ BuyMonitor
  \/ BoundedPrepare
  \/ VerificationTimeout
  \/ ManualVerify

WarmupSpec == Init /\ [][WarmupNext]_vars

(***************************************************************************)
(* The bandit weights alone: restored from storage as an earlier session   *)
(* saved them, seeded once by the warmup, updated by outcomes.  touched    *)
(* is the set of groups that have a stored or an updated weight.           *)
(***************************************************************************)
\* Weights an earlier session can have saved, for any subset of the groups.
StoredWeights ==
  UNION {[gs -> WeightSamples] : gs \in SUBSET Groups}

UpdateConfidences == {40, 60, 70, 95}

BanditInit ==
  /\ circularBuffer = NewCandleBuffer(MAX_CANDLES)
  /\ cs = InitCS
  /\ rl \in {[InitRL EXCEPT !.banditWeights = weights] : weights \in StoredWeights}
  /\ stc = InitSTC
  /\ timers = [verification |-> {}, prepare |-> {"initial"}]
  /\ feed = NULL
  /\ env = [canElevate |-> "unbound", now |-> 1, saved |-> 0]
  /\ hist = [InitHist EXCEPT !.touched = DOMAIN rl.banditWeights]

BanditWarmup ==
  /\ hist.warmupCalls = 0
  /\ \E p \in [Groups -> Proposals], move \in Moves, gc \in GroupConfidences :
       LET obs == [QuietObs EXCEPT !.proposals = p, !.move = move,
                                   !.groupConfidence = gc]
           series == [i \in 1..WARMUP_CANDLES |->
                        [t |-> (i - 1) * 60000, o |-> 1, h |-> 1, l |-> 1, c |-> 1]]
       IN Commit([World EXCEPT
                    !.rl = warmupBanditFromHistory(@, series, obs),
                    !.hist.warmupCalls = @ + 1,
                    !.hist.touched = @ \cup Proposing(obs)])

BanditUpdate ==
  /\ hist.nUpdates < MaxUpdates
  /\ \E g \in Groups, result \in {"WIN", "LOSS"}, confidence \in UpdateConfidences :
       Commit([World EXCEPT
                 !.rl = updateBanditWeight(@, g, result, confidence),
                 !.hist.nUpdates = @ + 1,
                 !.hist.touched = @ \cup {g},
                 !.hist.lastUpdate = [group |-> g, result |-> result,
                                      before |-> getBanditWeight(rl, g)]])

BanditNext ==
  \/ BanditWarmup
  \/ BanditUpdate

BanditSpec == BanditInit /\ [][BanditNext]_vars

(***************************************************************************)
(* The outcome bookkeeping alone: the counters and epsilon as a session    *)
(* left them (initialize restores them), then outcome events.              *)
(***************************************************************************)
\* The counters after 0, 98 and 1215 outcomes of a session started at
\* EPSILON (epsilon 0.30, 0.2857 and 0.01001), the second on a run of nine
\* wins, the third on a run of nine losses.
SavedSessions ==
  {[epsilon |-> 30000, totalExperiences |-> 0, sessionWins |-> 0,
    sessionLosses |-> 0, currentStreak |-> 0, maxStreak |-> 0],
   [epsilon |-> 28565, totalExperiences |-> 98, sessionWins |-> 60,
    sessionLosses |-> 38, currentStreak |-> 9, maxStreak |-> 9],
   [epsilon |-> 1001, totalExperiences |-> 1215, sessionWins |-> 600,
    sessionLosses |-> 615, currentStreak |-> -9, maxStreak |-> 12]}

OutcomeConfidences == {NONE, 40, 60, 74, 75, 79, 80, 84, 85, 90, 95}

OutcomeInit ==
  /\ circularBuffer = NewCandleBuffer(MAX_CANDLES)
  /\ cs = InitCS
  /\ rl \in {[InitRL EXCEPT !.epsilon = saved.epsilon,
                             !.totalExperiences = saved.totalExperiences,
                             !.sessionWins = saved.sessionWins,
                             !.sessionLosses = saved.sessionLosses,
                             !.currentStreak = saved.currentStreak,
                             !.maxStreak = saved.maxStreak] :
               saved \in SavedSessions}
  /\ stc = InitSTC
  /\ timers = [verification |-> {}, prepare |-> {"initial"}]
  /\ feed = NULL
  /\ env = [canElevate |-> "unbound", now |-> 1, saved |-> 0]
  /\ hist = InitHist

OutcomeEvent ==
  /\ hist.nOutcomes < MaxOutcomes
  /\ \E result \in Outcomes, confidence \in OutcomeConfidences :
       Commit([World EXCEPT
                 !.rl = calculateReward(@, result, confidence, NULL),
                 !.hist.nOutcomes = @ + 1])

\* Inputs of encodeState: the length of the series, and the values of the
\* components it computes from the series, the clock and the regime.
CandleCounts == {0, 49, 50, 51}
IndicatorSamples ==
  {[series |-> v, timeOfDay |-> t, stability |-> st] :
     v \in {0, 500, 1000}, t \in {0, 999}, st \in {0, 50, 100}}

OutcomeNext == OutcomeEvent

OutcomeSpec == OutcomeInit /\ [][OutcomeNext]_vars

(***************************************************************************)
(* The replay buffer alone: buffers constructed with a small maxSize and   *)
(* the instance the agent uses (maxSize = BUFFER_SIZE), filled through     *)
(* learnFromExperience and sampled.  added is every experience stored so   *)
(* far; batch is the last sample with the buffer it was drawn from.        *)
(***************************************************************************)
ReplayInit ==
  /\ circularBuffer = NewCandleBuffer(MAX_CANDLES)
  /\ cs = InitCS
  /\ rl \in {[InitRL EXCEPT !.replayMaxSize = m] :
               m \in (1..MaxCapacity) \cup {BUFFER_SIZE}}
  /\ stc = InitSTC
  /\ timers = [verification |-> {}, prepare |-> {"initial"}]
  /\ feed = NULL
  /\ env = [canElevate |-> "unbound", now |-> 1, saved |-> 0]
  /\ hist = InitHist

ReplayLearn ==
  /\ Len(hist.added) < (IF rl.replayMaxSize = BUFFER_SIZE
                         THEN MIN_EXPERIENCES + MaxTrainings - 1
                         ELSE MaxPushes)
  /\ LET n == Len(hist.added)
         experience == [state |-> n, action |-> 0, reward |-> REWARD_WIN,
                        nextState |-> n + 1, done |-> TRUE]
     IN Commit([World EXCEPT
                  !.rl = learnFromExperience(@, experience.state, experience.action,
                                             experience.reward, experience.nextState,
                                             experience.done),
                  !.hist.added = Append(@, experience)])

ReplaySample ==
  /\ Len(rl.replay) <= MaxPushes
  /\ \E batchSize \in 0..MaxBatch :
       \E batch \in sample(rl.replay, batchSize) :
         Commit([World EXCEPT
                   !.hist.batch = [size |-> batchSize, from |-> rl.replay,
                                   batch |-> batch]])

ReplayNext ==
  \/ ReplayLearn
  \/ ReplaySample

ReplaySpec == ReplayInit /\ [][ReplayNext]_vars

(***************************************************************************)
(* The running system over several signals: each window expires, its       *)
(* signal is published and verified as a WIN, and the next window opens.   *)
(***************************************************************************)
\* A step to world w, at most MaxCycles windows being opened.
CycleStep(result) ==
  \E w \in {result} :
    /\ w.hist.windowsOpened > hist.windowsOpened => hist.windowsOpened < MaxCycles
    /\ Commit(w)

CycleMonitor == CycleStep(onMonitorInterval(World, BuyObs))

CyclePrepare ==
  \E kind \in timers.prepare : CycleStep(onPrepareTimeout(World, kind))

CycleVerify ==
  \E outcome \in {"WIN", "LOSS"} : CycleStep(verifySignal(World, outcome, QuietObs))

CycleNext ==
  \/ Tick
  \/ TimePasses
  \/ CycleMonitor
  \/ CyclePrepare
  \/ CycleVerify

CycleSpec == Init /\ [][CycleNext]_vars

(***************************************************************************)
(* initialize alone: the module state as the script leaves it at load, and *)
(* one call of initialize with what storage answers.  A matrix is modelled *)
(* by its shape: the number of its rows and the length of its first row    *)
(* (getMatrixRowLength); a network by the shapes of its matrices and by    *)
(* where its weights came from.                                            *)
(***************************************************************************)
HIDDEN_DIM == 64
HIDDEN_DIM_2 == 32

resolveActionDim == NumGroups

\* new NeuralNetwork(): W1, W2, W3 drawn at random with the configured
\* dimensions.
NewNetwork ==
  [origin |-> "fresh",
   W1 |-> [rows |-> STATE_DIMENSION, cols |-> HIDDEN_DIM],
   W2 |-> [rows |-> HIDDEN_DIM, cols |-> HIDDEN_DIM_2],
   W3 |-> [rows |-> HIDDEN_DIM_2, cols |-> resolveActionDim]]

\* new DQNAgent(): targetNetwork.copyFrom(onlineNetwork).
NewDQNAgent == [onlineNetwork |-> NewNetwork, targetNetwork |-> NewNetwork]

\* NeuralNetwork.setWeights copies each matrix the saved object holds.
networkSetWeights(network, weights) ==
  [origin |-> "saved",
   W1 |-> IF weights.W1 # NULL THEN weights.W1 ELSE network.W1,
   W2 |-> IF weights.W2 # NULL THEN weights.W2 ELSE network.W2,
   W3 |-> IF weights.W3 # NULL THEN weights.W3 ELSE network.W3]

agentSetWeights(agent, weights) ==
  [onlineNetwork |-> networkSetWeights(agent.onlineNetwork, weights),
   targetNetwork |-> networkSetWeights(agent.targetNetwork, weights)]

shapeOk(weights) ==
  /\ weights.W1 # NULL
  /\ weights.W2 # NULL
  /\ weights.W3 # NULL
  /\ weights.W1.rows = STATE_DIMENSION
  /\ weights.W1.cols = HIDDEN_DIM
  /\ weights.W2.rows = HIDDEN_DIM
  /\ weights.W2.cols = HIDDEN_DIM_2
  /\ weights.W3.cols = resolveActionDim

\* response: what chrome.runtime.sendMessage({type: 'LOAD_RL_STATE'})
\* settles to (fails: the promise rejects); stored: the bandit weights in
\* localStorage.
initialize(r, stored, response) ==
  IF r.isInitialized THEN r
  ELSE LET r1 == [r EXCEPT !.banditWeights = stored,
                           !.dqnAgent = NewDQNAgent]
           savedState == response.data
           r2 == IF response.fails \/ savedState = NULL THEN r1
                 ELSE [r1 EXCEPT
                         !.dqnAgent =
                            IF savedState.weights # NULL
                               /\ shapeOk(savedState.weights)
                            THEN agentSetWeights(@, savedState.weights)
                            ELSE @,
                         !.epsilon = IF savedState.session.epsilon = 0
                                     THEN EPSILON
                                     ELSE savedState.session.epsilon,
                         !.sessionWins = savedState.session.sessionWins,
                         !.sessionLosses = savedState.session.sessionLosses,
                         !.currentStreak = savedState.session.currentStreak,
                         !.maxStreak = savedState.session.maxStreak,
                         !.totalExperiences =
                            savedState.session.totalExperiences]
       IN [r2 EXCEPT !.isInitialized = TRUE]

\* The module state when the script has loaded and initialize has not run.
ModuleRL == InitRL @@ [isInitialized |-> FALSE, dqnAgent |-> NULL]

\* Saved matrices: of the configured shape, with another number of rows,
\* with rows of another length; W3 may also be absent.
SavedW1 ==
  {[rows |-> STATE_DIMENSION, cols |-> HIDDEN_DIM],
   [rows |-> STATE_DIMENSION - 4, cols |-> HIDDEN_DIM],
   [rows |-> STATE_DIMENSION, cols |-> HIDDEN_DIM_2]}
SavedW2 ==
  {[rows |-> HIDDEN_DIM, cols |-> HIDDEN_DIM_2],
   [rows |-> HIDDEN_DIM_2, cols |-> HIDDEN_DIM_2],
   [rows |-> HIDDEN_DIM, cols |-> HIDDEN_DIM]}
SavedW3 ==
  {[rows |-> HIDDEN_DIM_2, cols |-> resolveActionDim],
   [rows |-> HIDDEN_DIM, cols |-> resolveActionDim],
   [rows |-> HIDDEN_DIM_2, cols |-> resolveActionDim + 1],
   NULL}
SavedWeights == [W1 : SavedW1, W2 : SavedW2, W3 : SavedW3]

LoadResponses ==
  {[fails |-> TRUE, data |-> NULL], [fails |-> FALSE, data |-> NULL]}
    \cup {[fails |-> FALSE, data |-> [weights |-> weights, session |-> session]] :
            weights \in {NULL} \cup SavedWeights, session \in SavedSessions}

InitializeInit ==
  /\ circularBuffer = NewCandleBuffer(MAX_CANDLES)
  /\ cs = InitCS
  /\ rl = ModuleRL
  /\ stc = InitSTC
  /\ timers = [verification |-> {}, prepare |-> {"initial"}]
  /\ feed = NULL
  /\ env = [canElevate |-> "unbound", now |-> 1, saved |-> 0]
  /\ hist = InitHist

Initialize ==
  /\ ~rl.isInitialized
  /\ \E stored \in {[g \in {} |-> 0], [g \in Groups |-> 2000]},
        response \in LoadResponses :
       Commit([World EXCEPT !.rl = initialize(@, stored, response),
                            !.hist.input = response])

InitializeNext == Initialize

InitializeSpec == InitializeInit /\ [][InitializeNext]_vars

(***************************************************************************)
(* The reward alone: calculateReward called with every confidence of       *)
(* [40, 95], under each market condition and risk snapshot.                *)
(***************************************************************************)
RewardConfidences == 40..95
MarketConditions == {NULL} \cup {[stability |-> st] : st \in {20, 50, 80}}
RiskSnapshots == {NOTHING, "LOW", "HIGH", "EXTREME"}

RewardInit ==
  /\ circularBuffer = NewCandleBuffer(MAX_CANDLES)
  /\ cs = InitCS
  /\ rl \in {[InitRL EXCEPT !.lastRiskSnapshot = level] : level \in RiskSnapshots}
  /\ stc = InitSTC
  /\ timers = [verification |-> {}, prepare |-> {"initial"}]
  /\ feed = NULL
  /\ env = [canElevate |-> "unbound", now |-> 1, saved |-> 0]
  /\ hist = InitHist

RewardEvent ==
  /\ hist.nOutcomes < MaxRewards
  /\ \E result \in {"WIN", "LOSS"}, confidence \in RewardConfidences,
        marketConditions \in MarketConditions :
       Commit([World EXCEPT
                 !.rl = calculateReward(@, result, confidence, marketConditions),
                 !.hist.nOutcomes = @ + 1,
                 !.hist.reward =
                    [result |-> result, confidence |-> confidence,
                     marketConditions |-> marketConditions,
                     value |-> calculateReward(rl, result, confidence,
                                               marketConditions).cumulativeReward
                               - rl.cumulativeReward]])

RewardNext == RewardEvent

RewardSpec == RewardInit /\ [][RewardNext]_vars

(***************************************************************************)
(* MarketRegimeDetector alone.  The levels detectRegime computes from the  *)
(* series (ATR ratio, EMA12 against EMA26) are inputs of the call; the     *)
(* detector is the field detector of env.                                  *)
(***************************************************************************)
MIN_REGIME_CANDLES == 50
MAX_REGIME_HISTORY == 100
STABILITY_WINDOW == 10

InitDetector ==
  [currentRegime |-> NULL, regimeHistory |-> <<>>, stabilityScore |-> 50]

DefaultRegime ==
  [volatility |-> "MEDIUM", direction |-> "NEUTRAL", strength |-> "MODERATE",
   uncertainty |-> NONE]

Last(seq, n) == SubSeq(seq, Max(1, Len(seq) - n + 1), Len(seq))

\* The stability of a history of at least STABILITY_WINDOW entries whose
\* newest entry has the given levels.
stabilityOf(history, volatility, direction) ==
  LET recent == Last(history, STABILITY_WINDOW)
      sameVol == Cardinality({i \in DOMAIN recent :
                                recent[i].regime.volatility = volatility})
      sameTrend == Cardinality({i \in DOMAIN recent :
                                  recent[i].regime.direction = direction})
  IN ((sameVol + sameTrend) * 100) \div 20

\* A detectRegime that never drops the oldest entry of the history.
detectRegimeKeepingAll(d, candles, levels, now) ==
  IF candles < MIN_REGIME_CANDLES
  THEN [detector |-> d, regime |-> DefaultRegime]
  ELSE LET pushed == Append(d.regimeHistory,
                            [timestamp |-> now,
                             regime |-> [volatility |-> levels.volatility,
                                         direction |-> levels.direction]])
           score == IF Len(pushed) >= STABILITY_WINDOW
                    THEN stabilityOf(pushed, levels.volatility, levels.direction)
                    ELSE d.stabilityScore
           regime == [volatility |-> levels.volatility,
                      direction |-> levels.direction,
                      strength |-> levels.strength,
                      uncertainty |-> Max(0, 100 - score)]
       IN [detector |-> [currentRegime |-> regime,
                         regimeHistory |-> pushed,
                         stabilityScore |-> score],
           regime |-> regime]

\* detectRegime: the detector after the call and the regime returned.  A
\* history entry keeps the levels the stability is computed from.
detectRegime(d, candles, levels, now) ==
  IF candles < MIN_REGIME_CANDLES
  THEN [detector |-> d, regime |-> DefaultRegime]
  ELSE LET pushed == Append(d.regimeHistory,
                            [timestamp |-> now,
                             regime |-> [volatility |-> levels.volatility,
                                         direction |-> levels.direction]])
           history == IF Len(pushed) > MAX_REGIME_HISTORY
                      THEN Tail(pushed) ELSE pushed
           score == IF Len(history) >= STABILITY_WINDOW
                    THEN stabilityOf(history, levels.volatility, levels.direction)
                    ELSE d.stabilityScore
           regime == [volatility |-> levels.volatility,
                      direction |-> levels.direction,
                      strength |-> levels.strength,
                      uncertainty |-> Max(0, 100 - score)]
       IN [detector |-> [currentRegime |-> regime,
                         regimeHistory |-> history,
                         stabilityScore |-> score],
           regime |-> regime]

updateRegime(d, candles, levels, now) == detectRegime(d, candles, levels, now)

RegimeLevels ==
  [volatility : {"LOW", "MEDIUM", "HIGH"},
   direction : {"BULLISH", "NEUTRAL", "BEARISH"},
   strength : {"STRONG"}]

\* The detector after n calls on a steady market (n entries of the same
\* levels, the n-th at time n).
SteadyLevels == [volatility |-> "LOW", direction |-> "BULLISH", strength |-> "WEAK"]
SteadyDetector(n) ==
  LET history == [i \in 1..n |->
                    [timestamp |-> i,
                     regime |-> [volatility |-> SteadyLevels.volatility,
                                 direction |-> SteadyLevels.direction]]]
      score == IF n >= STABILITY_WINDOW THEN 100 ELSE 50
  IN IF n = 0 THEN InitDetector
     ELSE [currentRegime |-> [volatility |-> SteadyLevels.volatility,
                              direction |-> SteadyLevels.direction,
                              strength |-> SteadyLevels.strength,
                              uncertainty |-> Max(0, 100 - score)],
           regimeHistory |-> history,
           stabilityScore |-> score]

SteadyCalls ==
  {0, STABILITY_WINDOW - MaxDetections, STABILITY_WINDOW - 1,
   MAX_REGIME_HISTORY - 1, MAX_REGIME_HISTORY}

RegimeInit ==
  /\ circularBuffer = NewCandleBuffer(MAX_CANDLES)
  /\ cs = InitCS
  /\ rl = InitRL
  /\ stc = InitSTC
  /\ timers = [verification |-> {}, prepare |-> {"initial"}]
  /\ feed = NULL
  /\ \E n \in SteadyCalls :
       /\ env = [canElevate |-> "unbound", now |-> n, saved |-> 0,
                 detector |-> SteadyDetector(n)]
       /\ hist = [InitHist EXCEPT !.detected = SteadyDetector(n).regimeHistory]

RegimeUpdate ==
  /\ hist.nCalls < MaxDetections
  /\ \E candles \in {MIN_REGIME_CANDLES - 1, MIN_REGIME_CANDLES},
        levels \in RegimeLevels :
       LET now == env.now + 1
           result == updateRegime(env.detector, candles, levels, now)
       IN Commit([World EXCEPT
                    !.env.now = now,
                    !.env.detector = result.detector,
                    !.hist.nCalls = @ + 1,
                    !.hist.detected =
                       IF candles < MIN_REGIME_CANDLES THEN @
                       ELSE Append(@, [timestamp |-> now,
                                       regime |-> [volatility |-> levels.volatility,
                                                   direction |-> levels.direction]]),
                    !.hist.detect = [candles |-> candles,
                                     before |-> env.detector,
                                     returned |-> result.regime]])

RegimeNext == RegimeUpdate

RegimeSpec == RegimeInit /\ [][RegimeNext]_vars

(***************************************************************************)
(* The indicator groups alone.  A signal strength is counted in 1/600, so  *)
(* that the halves and thirds the groups take of it are exact.  What a     *)
(* group reads from the series is an input: whether its indicators are     *)
(* available, the side its conditions select, the strength it computes,    *)
(* the ATR filter and the ADX.                                             *)
(***************************************************************************)
STRENGTH_UNIT == 600
MIN_CONFIDENCE == 60
MAX_CONFIDENCE == 95
ADX_STRONG == 25

\* Math.round of value / STRENGTH_UNIT: the nearest integer, halves upwards.
roundUnits(value) == (2 * value + STRENGTH_UNIT) \div (2 * STRENGTH_UNIT)

\* A confidence bounded from below only.
calculateConfidenceAtLeast(baseConfidence, signalStrength, atrFilter, adxStrength) ==
  IF signalStrength = PosInfinity THEN PosInfinity
  ELSE IF signalStrength = NegInfinity THEN MIN_CONFIDENCE
  ELSE LET confidence ==
             baseConfidence * STRENGTH_UNIT + 5 * signalStrength
               - (IF atrFilter THEN 0 ELSE 10 * STRENGTH_UNIT)
               + (IF adxStrength # NONE /\ adxStrength # 0
                     /\ adxStrength > ADX_STRONG
                  THEN 3 * STRENGTH_UNIT ELSE 0)
       IN Max(MIN_CONFIDENCE, roundUnits(confidence))

calculateConfidence(baseConfidence, signalStrength, atrFilter, adxStrength) ==
  IF signalStrength = PosInfinity THEN MAX_CONFIDENCE
  ELSE IF signalStrength = NegInfinity THEN MIN_CONFIDENCE
  ELSE LET confidence ==
             baseConfidence * STRENGTH_UNIT + 5 * signalStrength
               - (IF atrFilter THEN 0 ELSE 10 * STRENGTH_UNIT)
               + (IF adxStrength # NONE /\ adxStrength # 0
                     /\ adxStrength > ADX_STRONG
                  THEN 3 * STRENGTH_UNIT ELSE 0)
       IN Max(MIN_CONFIDENCE, Min(MAX_CONFIDENCE, roundUnits(confidence)))

\* The registry: the base confidence of each group, the part of the
\* strength it passes on, whether it passes the ATR filter (or true) and
\* the ADX (or nothing).
GROUPS ==
  <<[id |-> "RSI_BB", base |-> 75, part |-> 2, filter |-> TRUE, adx |-> FALSE],
    [id |-> "MACD_EMA", base |-> 73, part |-> 2, filter |-> TRUE, adx |-> FALSE],
    [id |-> "RSI_OVERSOLD", base |-> 72, part |-> 2, filter |-> TRUE, adx |-> FALSE],
    [id |-> "BB_BOUNCE", base |-> 74, part |-> 2, filter |-> TRUE, adx |-> FALSE],
    [id |-> "EMA_TREND", base |-> 71, part |-> 1, filter |-> TRUE, adx |-> FALSE],
    [id |-> "MACD_CROSS", base |-> 73, part |-> 2, filter |-> TRUE, adx |-> FALSE],
    [id |-> "RSI_MACD", base |-> 76, part |-> 2, filter |-> TRUE, adx |-> FALSE],
    [id |-> "BB_MACD", base |-> 75, part |-> 2, filter |-> TRUE, adx |-> FALSE],
    [id |-> "TRIPLE_EMA", base |-> 72, part |-> 1, filter |-> TRUE, adx |-> FALSE],
    [id |-> "RSI_BB_MACD", base |-> 78, part |-> 3, filter |-> TRUE, adx |-> FALSE],
    [id |-> "ATR_TREND", base |-> 74, part |-> 1, filter |-> FALSE, adx |-> FALSE],
    [id |-> "ADX_MACD", base |-> 77, part |-> 2, filter |-> TRUE, adx |-> TRUE],
    [id |-> "STOCH_RSI", base |-> 76, part |-> 1, filter |-> TRUE, adx |-> FALSE],
    [id |-> "ATR_BB", base |-> 75, part |-> 2, filter |-> TRUE, adx |-> FALSE],
    [id |-> "ADX_EMA", base |-> 76, part |-> 2, filter |-> TRUE, adx |-> TRUE],
    [id |-> "CCI_MACD", base |-> 75, part |-> 2, filter |-> TRUE, adx |-> FALSE],
    [id |-> "WILLIAMS_BB", base |-> 74, part |-> 2, filter |-> TRUE, adx |-> FALSE],
    [id |-> "ATR_MACD_EMA", base |-> 79, part |-> 1, filter |-> FALSE, adx |-> FALSE],
    [id |-> "PATTERN_ENGULFING_RSI", base |-> 78, part |-> 1, filter |-> TRUE, adx |-> TRUE],
    [id |-> "VOL_SQUEEZE_BREAKOUT", base |-> 77, part |-> 2, filter |-> TRUE, adx |-> FALSE]>>

partOf(signalStrength, part) ==
  IF signalStrength \in {PosInfinity, NegInfinity} THEN signalStrength
  ELSE signalStrength \div part

\* group.analyze(data): null when an indicator is missing or no side is
\* selected, else the side with its confidence.
analyze(group, data) ==
  IF ~data.available THEN NULL
  ELSE IF data.action = NOTHING THEN NULL
  ELSE [action |-> data.action,
        confidence |->
           calculateConfidence(group.base,
                               partOf(data.signalStrength, group.part),
                               IF group.filter THEN data.atrFilter ELSE TRUE,
                               IF group.adx THEN data.adx ELSE NONE)]

\* Strengths from -2 to 5 (0.19 and 0.2, 0.59 and 0.6 lie on either side of
\* a rounding step) and the two infinities a flat Bollinger band produces.
SignalStrengths ==
  {-1200, 0, 114, 120, 354, 360, 600, 1200, 3000, PosInfinity, NegInfinity}

GroupData ==
  [available : BOOLEAN, action : {"BUY", "SELL", NOTHING},
   signalStrength : SignalStrengths, atrFilter : BOOLEAN,
   adx : {NONE, 25, 26}]

GroupInit ==
  /\ circularBuffer = NewCandleBuffer(MAX_CANDLES)
  /\ cs = InitCS
  /\ rl = InitRL
  /\ stc = InitSTC
  /\ timers = [verification |-> {}, prepare |-> {"initial"}]
  /\ feed = NULL
  /\ env = [canElevate |-> "unbound", now |-> 1, saved |-> 0]
  /\ hist \in {[InitHist EXCEPT !.input = [group |-> g, data |-> data]] :
                 g \in DOMAIN GROUPS, data \in GroupData}

GroupAnalyze ==
  /\ hist.analysis = NULL
  /\ Commit([World EXCEPT
               !.hist.analysis =
                  [proposal |-> analyze(GROUPS[hist.input.group],
                                        hist.input.data)]])

GroupNext == GroupAnalyze

GroupSpec == GroupInit /\ [][GroupNext]_vars

(***************************************************************************)
(* calculateRSI alone, over series of integer closes.  The value is in     *)
(* thousandths (100 is 100000), rounded to the nearest; null is the record *)
(* with isNull.                                                            *)
(***************************************************************************)
RSI_MAX == 100000

RECURSIVE sumChanges(_, _, _, _)
\* The sum over i = from .. Len(closes) of the gains (sign 1) or of the
\* sizes of the other changes (sign -1) closes[i] - closes[i - 1].
sumChanges(closes, from, sign, acc) ==
  IF from > Len(closes) THEN acc
  ELSE LET change == closes[from] - closes[from - 1]
           add == IF sign = 1 THEN (IF change > 0 THEN change ELSE 0)
                  ELSE (IF change > 0 THEN 0 ELSE -change)
       IN sumChanges(closes, from + 1, sign, acc + add)

\* A calculateRSI that divides without looking at avgLoss: gains / 0 is
\* Infinity and the value 100, 0 / 0 is NaN.
calculateRSIUnguarded(closes, period) ==
  IF Len(closes) < period + 1 THEN [isNull |-> TRUE, value |-> 0]
  ELSE LET gains == sumChanges(closes, Len(closes) - period + 1, 1, 0)
           losses == sumChanges(closes, Len(closes) - period + 1, -1, 0)
       IN IF losses = 0 /\ gains = 0 THEN [isNull |-> FALSE, value |-> NaN]
          ELSE IF losses = 0 THEN [isNull |-> FALSE, value |-> RSI_MAX]
          ELSE [isNull |-> FALSE,
                value |-> RSI_MAX - RoundDiv(RSI_MAX * losses, gains + losses)]

\* avgGain / avgLoss = gains / losses, so 100 - 100 / (1 + rs) is
\* 100 - 100 * losses / (gains + losses).
calculateRSI(closes, period) ==
  IF Len(closes) < period + 1 THEN [isNull |-> TRUE, value |-> 0]
  ELSE LET gains == sumChanges(closes, Len(closes) - period + 1, 1, 0)
           losses == sumChanges(closes, Len(closes) - period + 1, -1, 0)
       IN IF losses = 0 THEN [isNull |-> FALSE, value |-> RSI_MAX]
          ELSE [isNull |-> FALSE,
                value |-> RSI_MAX - RoundDiv(RSI_MAX * losses, gains + losses)]

ClosesSeries == UNION {[1..n -> 1..(MaxPrice + 1)] : n \in 0..MaxCloses}

RsiInit ==
  /\ circularBuffer = NewCandleBuffer(MAX_CANDLES)
  /\ cs = InitCS
  /\ rl = InitRL
  /\ stc = InitSTC
  /\ timers = [verification |-> {}, prepare |-> {"initial"}]
  /\ feed = NULL
  /\ env = [canElevate |-> "unbound", now |-> 1, saved |-> 0]
  /\ hist \in {[InitHist EXCEPT !.input = [closes |-> closes, period |-> period]] :
                 closes \in ClosesSeries, period \in 1..MaxPeriod}

RsiCalculate ==
  /\ hist.rsi = NULL
  /\ Commit([World EXCEPT
               !.hist.rsi = calculateRSI(hist.input.closes, hist.input.period)])

RsiNext == RsiCalculate

RsiSpec == RsiInit /\ [][RsiNext]_vars

(***************************************************************************)
(* The cyclic signal generator (content.js): generateSignal is the         *)
(* callback of the cyclic engine.  Its module state is the variable cs,    *)
(* the PS_AT_FEED entry of localStorage the variable feed.  What           *)
(* analyzeIndicators returns, the draw of Math.random and the side of the  *)
(* price against EMA50 are inputs of the call.                             *)
(***************************************************************************)
MAX_HISTORY == 100
MIN_AI_CONFIDENCE == 35
FALLBACK_BASE == 50
FALLBACK_SPREAD == 15
FALLBACK_DURATION == 3

InitGenerator ==
  [warmupComplete |-> FALSE, lastSignal |-> NULL, totalSignals |-> 0,
   signalHistory |-> <<>>, resultChecks |-> {}]

publishToAutoTrader(w, signal) ==
  [w EXCEPT !.feed = [bestSignal |-> [action |-> signal.action,
                                      confidence |-> signal.confidence,
                                      duration |-> signal.duration,
                                      timestamp |-> signal.timestamp,
                                      expiry |-> signal.expiry,
                                      isFallback |-> signal.isFallback]]]

\* analysis: NULL or [action, confidence, duration]; random: the value of
\* Math.floor(Math.random() * 15); above: currentPrice > ema50.
generateSignal(w, analysis, random, above) ==
  IF ~w.cs.warmupComplete THEN w
  ELSE LET ai == analysis # NULL /\ analysis.action # NOTHING
                   /\ analysis.confidence >= MIN_AI_CONFIDENCE
           signal ==
             [action |-> IF ai THEN analysis.action
                         ELSE IF above THEN "BUY" ELSE "SELL",
              confidence |-> IF ai THEN analysis.confidence
                             ELSE FALLBACK_BASE + random,
              duration |-> IF ai THEN analysis.duration ELSE FALLBACK_DURATION,
              expiry |-> (IF ai THEN analysis.duration ELSE FALLBACK_DURATION) * 60,
              timestamp |-> w.env.now,
              isFallback |-> ~ai]
           history == <<signal>> \o w.cs.signalHistory
           w1 == [w EXCEPT
                    !.cs.lastSignal = signal,
                    !.cs.totalSignals = @ + 1,
                    !.cs.signalHistory =
                       IF Len(history) > MAX_HISTORY
                       THEN SubSeq(history, 1, MAX_HISTORY) ELSE history,
                    !.cs.resultChecks = @ \cup {signal.timestamp}]
       IN publishToAutoTrader(w1, signal)

Analyses ==
  {NULL} \cup [action : {"BUY", "SELL", NOTHING},
               confidence : {34, 35, 74, 75, 90},
               duration : {1, 3}]

GeneratorInit ==
  /\ circularBuffer = NewCandleBuffer(MAX_CANDLES)
  /\ cs = InitGenerator
  /\ rl = InitRL
  /\ stc = InitSTC
  /\ timers = [verification |-> {}, prepare |-> {}]
  /\ feed = NULL
  /\ env = [canElevate |-> "unbound", now |-> 1, saved |-> 0]
  /\ hist = InitHist

\* pushTick completes the warmup when the series holds WARMUP_CANDLES.
GeneratorWarmup ==
  /\ ~cs.warmupComplete
  /\ Commit([World EXCEPT !.cs.warmupComplete = TRUE])

GeneratorCycle ==
  /\ cs.totalSignals < MaxSignals
  /\ \E analysis \in Analyses, random \in 0..(FALLBACK_SPREAD - 1),
        above \in BOOLEAN :
       \* The clock is read by a generated signal only: it advances
       \* between two of them.
       Commit([generateSignal(World, analysis, random, above) EXCEPT
                 !.env.now = IF cs.warmupComplete THEN @ + 1 ELSE @])

GeneratorNext ==
  \/ GeneratorWarmup
  \/ GeneratorCycle

GeneratorSpec == GeneratorInit /\ [][GeneratorNext]_vars

(***************************************************************************)
(* Volatility classification of MarketRegimeDetector.detectRegime.        *)
(* Prices are integers (points).  calculateATR returns the sum of the     *)
(* last `period` true ranges, i.e. period times the average true range,   *)
(* and NONE for null; the ratio (atr / avgPrice) * 100 is compared with   *)
(* 0.3 and 0.7 by cross-multiplication, so no rounding is introduced.     *)
(***************************************************************************)
ATR_PERIOD == 14
AVG_PRICE_PERIOD == 20
RATIO_LOW_TENTHS == 3
RATIO_HIGH_TENTHS == 7

Abs(x) == IF x < 0 THEN -x ELSE x

RECURSIVE sumFrom(_, _, _)
sumFrom(seq, from, acc) ==
  IF from > Len(seq) THEN acc ELSE sumFrom(seq, from + 1, acc + seq[from])

calculateATR(highs, lows, closes, period) ==
  IF Len(highs) < period + 1 THEN NONE
  ELSE LET trs == [i \in 1..(Len(highs) - 1) |->
                     Max(highs[i + 1] - lows[i + 1],
                         Max(Abs(highs[i + 1] - closes[i]),
                             Abs(lows[i + 1] - closes[i])))]
       IN IF Len(trs) < period THEN NONE
          ELSE sumFrom(Last(trs, period), 1, 0)

\* level of ratio = (atrSum / ATR_PERIOD) / (closeSum / AVG_PRICE_PERIOD) * 100
levelOfRatio(atrSum, closeSum) ==
  LET lhs == atrSum * AVG_PRICE_PERIOD * 100 * 10
      unit == ATR_PERIOD * closeSum
  IN IF lhs < RATIO_LOW_TENTHS * unit THEN "LOW"
     ELSE IF lhs > RATIO_HIGH_TENTHS * unit THEN "HIGH"
     ELSE "MEDIUM"

volatilityOf(ohlcData) ==
  IF ohlcData = NULL \/ Len(ohlcData) < MIN_REGIME_CANDLES
  THEN [level |-> "MEDIUM", ratio |-> "default"]
  ELSE LET closes == [i \in 1..Len(ohlcData) |-> ohlcData[i].c]
           highs == [i \in 1..Len(ohlcData) |-> ohlcData[i].h]
           lows == [i \in 1..Len(ohlcData) |-> ohlcData[i].l]
           atr == calculateATR(highs, lows, closes, ATR_PERIOD)
           closeSum == sumFrom(Last(closes, AVG_PRICE_PERIOD), 1, 0)
       IN \* atr && avgPrice > 0 ? (atr / avgPrice) * 100 : 0.5
          IF atr # NONE /\ atr # 0 /\ closeSum > 0
          THEN [level |-> levelOfRatio(atr, closeSum), ratio |-> "computed"]
          ELSE [level |-> "MEDIUM", ratio |-> "fallback"]

BasePrices == {1000, 2000, 10000}
CandleRanges == {0, 2, 3, 4, 7, 8, 30}
LastRanges == {0, 3, 8}
SeriesLengths == {49, 50, 51}

\* n candles closing at base; every candle spans `range` above its close,
\* the latest one spans `lastRange`.
rangeSeries(n, base, range, lastRange) ==
  [i \in 1..n |-> [c |-> base, l |-> base,
                   h |-> base + (IF i = n THEN lastRange ELSE range)]]

VolatilityInit ==
  /\ circularBuffer = NewCandleBuffer(MAX_CANDLES)
  /\ cs = InitCS
  /\ rl = InitRL
  /\ stc = InitSTC
  /\ timers = [verification |-> {}, prepare |-> {"initial"}]
  /\ feed = NULL
  /\ env = [canElevate |-> "unbound", now |-> 1, saved |-> 0]
  /\ hist \in {[InitHist EXCEPT !.input =
                  [ohlcData |-> rangeSeries(n, base, range, lastRange)]] :
                 n \in SeriesLengths, base \in BasePrices,
                 range \in CandleRanges, lastRange \in LastRanges}

VolatilityDetect ==
  /\ hist.volatility = NULL
  /\ Commit([World EXCEPT !.hist.volatility = volatilityOf(hist.input.ohlcData)])

VolatilityNext == VolatilityDetect

VolatilitySpec == VolatilityInit /\ [][VolatilityNext]_vars

(***************************************************************************)
(* The analyze functions of the groups RSI_OVERSOLD, CCI_MACD and          *)
(* WILLIAMS_BB over the values their indicators returned.  An indicator   *)
(* value is NULL or [v |-> number]; the MACD is NULL or a record with the *)
(* histogram in units of 0.0001; the Bollinger bands are NULL or a record *)
(* with percentB in hundredths.  Strengths are in 1/STRENGTH_UNIT.        *)
(***************************************************************************)
\* !x of JavaScript for a number or null: null and 0 are falsy.
falsy(x) == x = NULL \/ x.v = 0

analyzeRsiOversold(rsi, macd, atrFilter) ==
  IF falsy(rsi) \/ macd = NULL THEN NULL
  ELSE IF rsi.v < 30 /\ macd.histogram > -1
  THEN [action |-> "BUY",
        confidence |-> calculateConfidence(72, (20 * (30 - rsi.v)) \div 2,
                                           atrFilter, NONE)]
  ELSE IF rsi.v > 70 /\ macd.histogram < 1
  THEN [action |-> "SELL",
        confidence |-> calculateConfidence(72, (20 * (rsi.v - 70)) \div 2,
                                           atrFilter, NONE)]
  ELSE NULL

analyzeCciMacd(cci, macd, atrFilter) ==
  IF falsy(cci) \/ macd = NULL THEN NULL
  ELSE LET momentum == Min(300, 30 * Abs(macd.histogram))
       IN IF cci.v < -100 /\ macd.histogram > 0
          THEN [action |-> "BUY",
                confidence |->
                  calculateConfidence(75,
                    (Min(600, 6 * Abs(cci.v + 100)) + momentum) \div 2,
                    atrFilter, NONE)]
          ELSE IF cci.v > 100 /\ macd.histogram < 0
          THEN [action |-> "SELL",
                confidence |->
                  calculateConfidence(75,
                    (Min(600, 6 * Abs(cci.v - 100)) + momentum) \div 2,
                    atrFilter, NONE)]
          ELSE NULL

analyzeWilliamsBb(williamsR, bb, atrFilter) ==
  IF falsy(williamsR) \/ bb = NULL THEN NULL
  ELSE IF williamsR.v < -80 /\ bb.percentB < 25
  THEN [action |-> "BUY",
        confidence |->
          calculateConfidence(74,
            (30 * Abs(williamsR.v + 80) + 24 * (25 - bb.percentB)) \div 2,
            atrFilter, NONE)]
  ELSE IF williamsR.v > -20 /\ bb.percentB > 75
  THEN [action |-> "SELL",
        confidence |->
          calculateConfidence(74,
            (30 * (williamsR.v + 20) + 24 * (bb.percentB - 75)) \div 2,
            atrFilter, NONE)]
  ELSE NULL

analyzeGroup(input) ==
  CASE input.group = "RSI_OVERSOLD" ->
         analyzeRsiOversold(input.indicator, input.confirm, input.atrFilter)
    [] input.group = "CCI_MACD" ->
         analyzeCciMacd(input.indicator, input.confirm, input.atrFilter)
    [] input.group = "WILLIAMS_BB" ->
         analyzeWilliamsBb(input.indicator, input.confirm, input.atrFilter)

\* Values the indicators return: null, the value 0, and values on either
\* side of each threshold.
RsiValues == {NULL} \cup {[v |-> n] : n \in {0, 10, 29, 30, 50, 70, 71, 100}}
CciValues == {NULL} \cup {[v |-> n] : n \in {-250, -101, -100, 0, 100, 101, 250}}
WilliamsValues == {NULL} \cup {[v |-> n] : n \in {-100, -81, -80, -50, -20, -19, 0}}
MacdValues == {NULL} \cup {[histogram |-> h] : h \in {-20, -1, 0, 1, 20}}
BbValues == {NULL} \cup {[percentB |-> p] : p \in {0, 24, 25, 50, 75, 76, 100}}

AbstainInputs ==
  {[group |-> "RSI_OVERSOLD", indicator |-> i, confirm |-> m, atrFilter |-> f] :
     i \in RsiValues, m \in MacdValues, f \in BOOLEAN}
  \cup
  {[group |-> "CCI_MACD", indicator |-> i, confirm |-> m, atrFilter |-> f] :
     i \in CciValues, m \in MacdValues, f \in BOOLEAN}
  \cup
  {[group |-> "WILLIAMS_BB", indicator |-> i, confirm |-> b, atrFilter |-> f] :
     i \in WilliamsValues, b \in BbValues, f \in BOOLEAN}

AbstainInit ==
  /\ circularBuffer = NewCandleBuffer(MAX_CANDLES)
  /\ cs = InitCS
  /\ rl = InitRL
  /\ stc = InitSTC
  /\ timers = [verification |-> {}, prepare |-> {"initial"}]
  /\ feed = NULL
  /\ env = [canElevate |-> "unbound", now |-> 1, saved |-> 0]
  /\ hist \in {[InitHist EXCEPT !.input = input] : input \in AbstainInputs}

AbstainAnalyze ==
  /\ hist.groupResult = NULL
  /\ Commit([World EXCEPT
               !.hist.groupResult = [result |-> analyzeGroup(hist.input)]])

AbstainNext == AbstainAnalyze

AbstainSpec == AbstainInit /\ [][AbstainNext]_vars

(***************************************************************************)
(* DQNAgent.train of dqn-network.js.  Every number (parameter, state      *)
(* component, reward, Q-value) is a fixed-point integer in millionths;    *)
(* a product of two of them is formed from their thousandths.  A matrix   *)
(* W is a sequence of rows, W[i][j] joining input i to output j.          *)
(***************************************************************************)
FIXED_ONE == 1000000
FIXED_ROOT == 1000
TAU_INVERSE == 200
GAMMA_TWENTIETHS == 19
RATE_DIVISOR == 10000
W3_DIVISOR == 100
MAX_VOLATILITY_BOOST == 1500000
BASE_VOLATILITY_WEIGHT == 500000

product(a, b) == (a \div FIXED_ROOT) * (b \div FIXED_ROOT)

\* The nextState of an experience that has none (null).
NO_STATE == <<>>

relu(x) == Max(0, x)

RECURSIVE dot(_, _, _, _, _)
\* sum over i <= n of x[i] * W[i][j], added to acc
dot(x, W, j, n, acc) ==
  IF n = 0 THEN acc ELSE dot(x, W, j, n - 1, acc + product(x[n], W[n][j]))

predict(net, state) ==
  LET h1 == [j \in 1..Len(net.b1) |->
               relu(dot(state, net.W1, j, Len(net.W1), net.b1[j]))]
      h2 == [j \in 1..Len(net.b2) |->
               relu(dot(h1, net.W2, j, Len(net.W2), net.b2[j]))]
  IN [j \in 1..Len(net.b3) |-> dot(h2, net.W3, j, Len(net.W3), net.b3[j])]

\* The first index of the greatest value (indices from 1).
RECURSIVE bestIndex(_, _, _)
bestIndex(values, i, best) ==
  IF i > Len(values) THEN best
  ELSE bestIndex(values, i + 1, IF values[i] > values[best] THEN i ELSE best)

getSafeArrayIndex(arr, index) ==
  IF Len(arr) = 0 THEN NONE ELSE Max(1, Min(index, Len(arr)))

\* tau * online + (1 - tau) * target, tau = 0.005 = 1 / TAU_INVERSE
blend(online, target) == (online + (TAU_INVERSE - 1) * target) \div TAU_INVERSE

blendVector(online, target) ==
  [i \in 1..Len(online) |-> blend(online[i], target[i])]

blendMatrix(online, target) ==
  [i \in 1..Len(online) |-> blendVector(online[i], target[i])]

softUpdate(agent) ==
  [agent EXCEPT
     !.targetNetwork =
        [W1 |-> blendMatrix(agent.onlineNetwork.W1, @.W1),
         b1 |-> blendVector(agent.onlineNetwork.b1, @.b1),
         W2 |-> blendMatrix(agent.onlineNetwork.W2, @.W2),
         b2 |-> blendVector(agent.onlineNetwork.b2, @.b2),
         W3 |-> blendMatrix(agent.onlineNetwork.W3, @.W3),
         b3 |-> blendVector(agent.onlineNetwork.b3, @.b3)]]

\* An update that moves the bias of every action.
updateWeightsEveryAction(net, state, action, adjustment) ==
  [net EXCEPT
     !.W3 = [i \in 1..Len(@) |->
               IF i <= Len(state) /\ action \in 1..Len(@[i])
               THEN [@[i] EXCEPT ![action] =
                       @ + (adjustment * (state[i] \div FIXED_ROOT))
                             \div (FIXED_ROOT * W3_DIVISOR)]
               ELSE @[i]],
     !.b3 = [j \in 1..Len(@) |-> @[j] + adjustment]]

\* _updateWeights, adjustment = tdError * learningRate * 0.1
updateWeights(net, state, action, adjustment) ==
  [net EXCEPT
     !.W3 = [i \in 1..Len(@) |->
               IF i <= Len(state) /\ action \in 1..Len(@[i])
               THEN [@[i] EXCEPT ![action] =
                       @ + (adjustment * (state[i] \div FIXED_ROOT))
                             \div (FIXED_ROOT * W3_DIVISOR)]
               ELSE @[i]],
     !.b3 = IF action \in 1..Len(@) THEN [@ EXCEPT ![action] = @ + adjustment]
            ELSE @]

targetQOf(agent, exp) ==
  IF ~exp.done /\ exp.nextState # NO_STATE
  THEN LET onlineNext == predict(agent.onlineNetwork, exp.nextState)
           bestNextAction == bestIndex(onlineNext, 2, 1)
           targetNext == predict(agent.targetNetwork, exp.nextState)
           safeIndex == getSafeArrayIndex(targetNext, bestNextAction)
           nextQ == IF safeIndex # NONE THEN targetNext[safeIndex] ELSE 0
       IN exp.reward + (GAMMA_TWENTIETHS * nextQ) \div 20
  ELSE exp.reward

\* One pass of the loop of train over an experience.
trainOne(agent, exp) ==
  LET currentQValues == predict(agent.onlineNetwork, exp.state)
  IN IF exp.action \notin 1..Len(currentQValues)
     THEN agent   \* tdError is NaN and no entry of W3 or b3 is defined
     ELSE LET tdError == targetQOf(agent, exp) - currentQValues[exp.action]
              volatilityFactor ==
                IF Len(exp.state) >= 2 /\ exp.state[2] # 0
                THEN Min(MAX_VOLATILITY_BOOST,
                         BASE_VOLATILITY_WEIGHT + exp.state[2])
                ELSE FIXED_ONE
              adjustment == product(tdError, volatilityFactor) \div RATE_DIVISOR
          IN [agent EXCEPT
                !.onlineNetwork =
                   updateWeights(@, exp.state, exp.action, adjustment)]

RECURSIVE trainLoop(_, _, _)
trainLoop(agent, batch, k) ==
  IF k > Len(batch) THEN agent
  ELSE trainLoop(trainOne(agent, batch[k]), batch, k + 1)

\* The target Q-value the loop computes for experience k of the batch.
targetQAt(agent, batch, k) ==
  targetQOf(trainLoop(agent, SubSeq(batch, 1, k - 1), 1), batch[k])

train(agent, batch) ==
  IF Len(batch) = 0 THEN agent
  ELSE [softUpdate(trainLoop(agent, batch, 1)) EXCEPT !.trainSteps = @ + 1]

\* Networks of 2 inputs, 2 and 3 hidden units and 3 actions.
TrainNetworkA ==
  [W1 |-> <<<<500000, -250000>>, <<1000000, 750000>>>>,
   b1 |-> <<0, 100000>>,
   W2 |-> <<<<1000000, 500000, -500000>>, <<250000, 1000000, 750000>>>>,
   b2 |-> <<0, 0, 200000>>,
   W3 |-> <<<<1000000, -1000000, 500000>>, <<500000, 250000, -250000>>,
            <<-750000, 1000000, 250000>>>>,
   b3 |-> <<0, 100000, -100000>>]

TrainNetworkB ==
  [W1 |-> <<<<-500000, 1000000>>, <<250000, 500000>>>>,
   b1 |-> <<200000, 0>>,
   W2 |-> <<<<750000, -250000, 1000000>>, <<1000000, 500000, 250000>>>>,
   b2 |-> <<100000, 0, 0>>,
   W3 |-> <<<<250000, 750000, -500000>>, <<-1000000, 500000, 1000000>>,
            <<500000, -250000, 750000>>>>,
   b3 |-> <<100000, 0, 200000>>]

TrainStates == {<<0, 0>>, <<1000000, 500000>>, <<500000, 1000000>>}

TrainExperiences ==
  {[state |-> <<1000000, 500000>>, action |-> 1, reward |-> 10000000,
    nextState |-> <<500000, 1000000>>, done |-> FALSE],
   [state |-> <<500000, 1000000>>, action |-> 2, reward |-> -12000000,
    nextState |-> <<1000000, 500000>>, done |-> TRUE],
   [state |-> <<1000000, 0>>, action |-> 3, reward |-> 18000000,
    nextState |-> NO_STATE, done |-> FALSE],
   [state |-> <<500000, 1000000>>, action |-> 1, reward |-> -18000000,
    nextState |-> <<0, 0>>, done |-> TRUE],
   [state |-> <<1000000, 500000>>, action |-> 4, reward |-> 10000000,
    nextState |-> <<500000, 1000000>>, done |-> FALSE]}

TrainBatches ==
  {<<>>} \cup {<<e>> : e \in TrainExperiences}
         \cup {<<e, f>> : e \in TrainExperiences, f \in TrainExperiences}

TrainInit ==
  /\ circularBuffer = NewCandleBuffer(MAX_CANDLES)
  /\ cs = InitCS
  /\ rl = InitRL
  /\ stc = InitSTC
  /\ timers = [verification |-> {}, prepare |-> {"initial"}]
  /\ feed = NULL
  /\ \E online \in {TrainNetworkA, TrainNetworkB},
        target \in {TrainNetworkA, TrainNetworkB} :
        env = [canElevate |-> "unbound", now |-> 1, saved |-> 0,
               agent |-> [onlineNetwork |-> online, targetNetwork |-> target,
                          trainSteps |-> 0]]
  /\ hist \in {[InitHist EXCEPT !.input = [batch |-> batch]] :
                 batch \in TrainBatches}

Train ==
  /\ hist.train = NULL
  /\ Commit([World EXCEPT
               !.env.agent = train(@, hist.input.batch),
               !.hist.train =
                  [before |-> env.agent,
                   targets |-> [k \in 1..Len(hist.input.batch) |->
                                  targetQAt(env.agent, hist.input.batch, k)]]])

TrainNext == Train

TrainSpec == TrainInit /\ [][TrainNext]_vars

(***************************************************************************)
(* CyclicDecisionEngine (the configurable engine the content script       *)
(* restarts when the interval slider moves; the engine of                 *)
(* cyclic-decision-engine.js is the same code with a fixed interval).     *)
(* active is the set of interval timers the page holds, calls and         *)
(* lastCall record the invocations of the callback.  Times are in ms.     *)
(***************************************************************************)
MS_PER_MINUTE == 60000
DEFAULT_INTERVAL_MS == 300000
MIN_INTERVAL_MINUTES == 1
MAX_INTERVAL_MINUTES == 10
MaxInitializations == 3
MaxEngineTime == 125000

InitEngine ==
  [currentIntervalMs |-> DEFAULT_INTERVAL_MS, intervalId |-> NONE,
   signalGenerationCallback |-> NOTHING, lastCycleStartTime |-> 0,
   active |-> {}, nextId |-> 1, calls |-> 0, lastCall |-> NONE]

\* signalGenerationCallback()
invokeCallback(e, now) == [e EXCEPT !.calls = @ + 1, !.lastCall = now]

\* An initialize that leaves the interval timer of the previous call running.
cycleInitializeKeepingTimer(e, now, isFunction, intervalMinutes) ==
  IF ~isFunction THEN e
  ELSE LET minutes == Max(MIN_INTERVAL_MINUTES,
                          Min(MAX_INTERVAL_MINUTES, intervalMinutes))
           e2 == [e EXCEPT !.currentIntervalMs = minutes * MS_PER_MINUTE,
                           !.signalGenerationCallback = "generateSignal",
                           !.lastCycleStartTime = now]
           e3 == invokeCallback(e2, now)
       IN [e3 EXCEPT !.intervalId = e3.nextId,
                     !.active = @ \cup {e3.nextId},
                     !.nextId = @ + 1]

cycleInitialize(e, now, isFunction, intervalMinutes) ==
  LET e1 == IF e.intervalId # NONE
            THEN [e EXCEPT !.active = @ \ {e.intervalId}] ELSE e
  IN IF ~isFunction THEN e1
     ELSE LET minutes == Max(MIN_INTERVAL_MINUTES,
                             Min(MAX_INTERVAL_MINUTES, intervalMinutes))
              e2 == [e1 EXCEPT !.currentIntervalMs = minutes * MS_PER_MINUTE,
                               !.signalGenerationCallback = "generateSignal",
                               !.lastCycleStartTime = now]
              e3 == invokeCallback(e2, now)
          IN [e3 EXCEPT !.intervalId = e3.nextId,
                        !.active = @ \cup {e3.nextId},
                        !.nextId = @ + 1]

cycleStop(e) ==
  IF e.intervalId # NONE
  THEN [e EXCEPT !.active = @ \ {e.intervalId}, !.intervalId = NONE]
  ELSE e

\* The callback of setInterval(..., 1000).
cycleCheck(e, now) ==
  IF now - e.lastCycleStartTime >= e.currentIntervalMs
  THEN [invokeCallback(e, now) EXCEPT !.lastCycleStartTime = now]
  ELSE e

IntervalSettings == {0, 1, 2}
EngineDelays == {1000, 59000}

EngineInit ==
  /\ circularBuffer = NewCandleBuffer(MAX_CANDLES)
  /\ cs = InitCS
  /\ rl = InitRL
  /\ stc = InitSTC
  /\ timers = [verification |-> {}, prepare |-> {"initial"}]
  /\ feed = NULL
  /\ env = [canElevate |-> "unbound", now |-> 0, saved |-> 0,
            engine |-> InitEngine]
  /\ hist = [InitHist EXCEPT !.engineStep = [kind |-> "none", n |-> 0,
                                             stopped |-> FALSE]]

EngineInitialize ==
  /\ hist.engineStep.n < MaxInitializations
  /\ \E isFunction \in BOOLEAN, minutes \in IntervalSettings :
       Commit([World EXCEPT
                 !.env.engine = cycleInitialize(@, env.now, isFunction, minutes),
                 !.hist.engineStep =
                    [kind |-> "initialize", n |-> @.n + 1,
                     stopped |-> IF isFunction THEN FALSE ELSE @.stopped]])

EngineStop ==
  Commit([World EXCEPT !.env.engine = cycleStop(@),
                       !.hist.engineStep = [@ EXCEPT !.kind = "stop",
                                                     !.stopped = TRUE]])

EngineInterval ==
  \E id \in env.engine.active :
    Commit([World EXCEPT !.env.engine = cycleCheck(@, env.now),
                         !.hist.engineStep = [@ EXCEPT !.kind = "interval"]])

EngineTimePasses ==
  \E d \in EngineDelays :
    /\ env.now + d <= MaxEngineTime
    /\ Commit([World EXCEPT !.env.now = @ + d,
                            !.hist.engineStep = [@ EXCEPT !.kind = "time"]])

EngineNext ==
  \/ EngineInitialize
  \/ EngineStop
  \/ EngineInterval
  \/ EngineTimePasses

EngineSpec == EngineInit /\ [][EngineNext]_vars

(***************************************************************************)
(* Auto Trader main loop (unnamed/part_002).  An invocation of the async   *)
(* tick() runs its checks synchronously up to `await executeTrade(sig)`;   *)
(* the rest of the function is a second step that runs when the promise    *)
(* settles.  inFlight holds the executeTrade calls that have not settled   *)
(* yet, with what tick() read when it started them.  Times are in ms,      *)
(* balances in currency units, payouts in percent.                         *)
(***************************************************************************)
COOLDOWN_SEC_DEFAULT == 15
AT_DUP_COOLDOWN_SEC == 60
TICK_MS == 1500
MaxExecutions == 2
MaxTraderTime == 61500

DUP_COOLDOWN_MS == Max(0, AT_DUP_COOLDOWN_SEC) * 1000

TraderSymbols == {"EURUSD", "GBPUSD"}
TraderKeys == [sym : TraderSymbols, action : {"BUY", "SELL"}, minutes : {1}]

\* A trader that starts a trade on a symbol whatever its last trade.
canTradeAlways(t, sym, now) == TRUE

canTrade(t, sym, now) == now - t.cdMap[sym] >= COOLDOWN_SEC_DEFAULT * 1000

markTrade(t, sym, now) == [t EXCEPT !.cdMap[sym] = now]

\* tick() up to the await; read: what the page shows at this moment.
traderTick(t, read, now) ==
  IF ~t.active THEN t
  ELSE IF t.skipLowRW /\ read.rw # NONE /\ read.rw <= 15 THEN t
  ELSE IF read.bal = NONE THEN t
  ELSE
    LET t1 == IF t.peak = NONE \/ read.bal > t.peak
              THEN [t EXCEPT !.peak = read.bal] ELSE t
        sigKey == [sym |-> read.sym, action |-> read.sig.action,
                   minutes |-> read.sig.minutes]
    IN IF t1.stopAbs > 0 /\ read.bal <= t1.stopAbs THEN t1
       ELSE IF t1.ddPct > 0 /\ t1.peak # NONE
               /\ read.bal * 100 <= t1.peak * (100 - t1.ddPct) THEN t1
       ELSE IF read.payout = NONE \/ read.payout < t1.minPayout THEN t1
       ELSE IF read.sym = NOTHING THEN t1
       ELSE IF ~canTrade(t1, read.sym, now) THEN t1
       ELSE IF read.sig = NULL THEN t1
       ELSE IF now - t1.lastExec[sigKey] < DUP_COOLDOWN_MS THEN t1
       ELSE IF t1.executing THEN t1
       ELSE [t1 EXCEPT !.executing = TRUE,
                       !.inFlight = @ \cup {[key |-> sigKey, at |-> now,
                                             read |-> read, peak |-> t1.peak]},
                       !.started = @ + 1]

\* tick() after the await for the call `call`: executeTrade resolved (ok)
\* or rejected.
traderSettle(t, call, ok, now) ==
  LET t1 == [t EXCEPT !.inFlight = @ \ {call}]
      t2 == IF ok
            THEN [markTrade(t1, call.key.sym, now) EXCEPT
                    !.lastExec[call.key] = now,
                    !.completed[call.key] = now]
            ELSE t1
  IN [t2 EXCEPT !.executing = FALSE]

TraderSettings ==
  {[stopAbs |-> 50, ddPct |-> 0, minPayout |-> 70, skipLowRW |-> TRUE],
   [stopAbs |-> 0, ddPct |-> 20, minPayout |-> 70, skipLowRW |-> TRUE]}

\* A page on which every check passes, and the pages that differ from it
\* in one reading.
GoodReading ==
  [rw |-> 30, bal |-> 100, payout |-> 85, sym |-> "EURUSD",
   sig |-> [action |-> "BUY", minutes |-> 1]]

TraderReadings ==
  {GoodReading}
    \cup {[GoodReading EXCEPT !.rw = x] : x \in {NONE, 15}}
    \cup {[GoodReading EXCEPT !.bal = x] : x \in {NONE, 50, 85}}
    \cup {[GoodReading EXCEPT !.payout = x] : x \in {NONE, 65}}
    \cup {[GoodReading EXCEPT !.sym = x] : x \in {"GBPUSD", NOTHING}}
    \cup {[GoodReading EXCEPT !.sig = x] :
            x \in {NULL, [action |-> "SELL", minutes |-> 1]}}

InitTrader(settings) ==
  [active |-> TRUE, stopAbs |-> settings.stopAbs, ddPct |-> settings.ddPct,
   peak |-> NONE, minPayout |-> settings.minPayout,
   skipLowRW |-> settings.skipLowRW, executing |-> FALSE,
   cdMap |-> [s \in TraderSymbols |-> 0],
   lastExec |-> [k \in TraderKeys |-> 0],
   inFlight |-> {}, started |-> 0,
   completed |-> [k \in TraderKeys |-> NONE]]

TraderInit ==
  /\ circularBuffer = NewCandleBuffer(MAX_CANDLES)
  /\ cs = InitCS
  /\ rl = InitRL
  /\ stc = InitSTC
  /\ timers = [verification |-> {}, prepare |-> {"initial"}]
  /\ feed = NULL
  /\ \E settings \in TraderSettings :
       env = [canElevate |-> "unbound", now |-> DUP_COOLDOWN_MS, saved |-> 0,
              trader |-> InitTrader(settings)]
  /\ hist = InitHist

TraderTick ==
  /\ env.trader.started < MaxExecutions
  /\ \E read \in TraderReadings :
       Commit([World EXCEPT !.env.trader = traderTick(@, read, env.now)])

TraderSettle ==
  \E call \in env.trader.inFlight, ok \in BOOLEAN :
    Commit([World EXCEPT !.env.trader = traderSettle(@, call, ok, env.now)])

\* The ON/OFF button of the panel.
TraderToggle ==
  Commit([World EXCEPT !.env.trader.active = ~@])

TraderTimePasses ==
  \E d \in {TICK_MS, 9 * TICK_MS} :
    /\ env.now + d <= DUP_COOLDOWN_MS + MaxTraderTime
    /\ Commit([World EXCEPT !.env.now = @ + d])

TraderNext ==
  \/ TraderTick
  \/ TraderSettle
  \/ TraderToggle
  \/ TraderTimePasses

TraderSpec == TraderInit /\ [][TraderNext]_vars

(***************************************************************************)
(* Properties.                                                             *)
(***************************************************************************)

\* C1: the signal lock never deadlocks: whenever signalLocked is true it
\* eventually becomes false again, in every execution in which timers keep
\* firing, ticks keep arriving and time passes.
C1_LockEventuallyReleased == cs.signalLocked ~> ~cs.signalLocked

\* C2: gates never block a signal: a publish step at expiry that finds a
\* proposing group runs to completion (lastSignal set, signal counted as
\* published, window stopped, pendingSignalData cleared).
C2_GatesNeverBlock ==
  [][(hist'.publish.bit # hist.publish.bit /\ hist'.publish.outcome # "noAction")
       => /\ cs'.lastSignal # NULL
          /\ hist'.published = hist.published + 1
          /\ ~isActive(stc')
          /\ cs'.pendingSignalData = NULL]_vars

\* C3: for each published signal onSignalVerified runs at most once, and no
\* arrival after the first adds an experience.
C3_VerifiedAtMostOnce ==
  /\ \A id \in DOMAIN hist.onSignalVerifiedCalls : hist.onSignalVerifiedCalls[id] <= 1
  /\ Len(rl.replay) <= hist.published

\* A signal has been verified while a result is stored in the feed and
\* follow-up timers of the chain are still pending.
C3_Witness ==
  /\ hist.verified = 1
  /\ timers.verification # {}
  /\ feed # NULL
  /\ feed.result # NOTHING

C5_NoStartWhileActive == ~hist.startWhileActive

\* C6: an open window is cleared (controller stopped, pendingSignalData
\* cleared or lock released) only by cancelPendingSignal or by the publish
\* step at expiry.
C6_ClearedOnlyByCancelOrPublish ==
  [][(cs.pendingSignalData # NULL
        /\ (cs'.pendingSignalData = NULL \/ ~cs'.signalLocked \/ ~isActive(stc')))
       => hist'.clearedBy \in {"cancel", "publish", "noAction"}]_vars

\* C7: a bias flip cancels an open window: the window opened by
\* prepareSignalForTiming carries a direction (BUY or SELL) under analysis
\* against which the monitoring step compares the bias.
C7_WindowHasDirection ==
  cs.pendingSignalData # NULL => cs.pendingSignalData.action \in {"BUY", "SELL"}

\* No window is ever cleared by cancelPendingSignal.
CancelNeverTaken == hist.clearedBy # "cancel"

\* C8: the experience appended when a signal is verified has the state and
\* the action captured in the signal at publish.
C8_LearningPairSurvives ==
  [][hist'.verified = hist.verified + 1
       => /\ Len(rl'.replay) = Len(rl.replay) + 1
          /\ rl'.replay[Len(rl'.replay)].state = cs.lastSignal.rlState
          /\ rl'.replay[Len(rl'.replay)].action = cs.lastSignal.rlAction]_vars

\* A signal was verified after another call of getRecommendedAction had
\* overwritten the agent's pair.
C8_Witness == hist.restored /\ Len(rl.replay) = 1

SeriesMatchesBuckets ==
  /\ Len(cs.ohlcM1) = Cardinality(DOMAIN hist.buckets)
  /\ \A b \in DOMAIN hist.buckets :
       \E i \in 1..Len(cs.ohlcM1) :
         /\ cs.ohlcM1[i].t = b
         /\ cs.ohlcM1[i].o = hist.buckets[b].first
         /\ cs.ohlcM1[i].c = hist.buckets[b].last
         /\ cs.ohlcM1[i].h = hist.buckets[b].max
         /\ cs.ohlcM1[i].l = hist.buckets[b].min

\* C10 as stated: the aggregation invariant after ticks in any timestamp order.
C10_AggregationAnyOrder == SeriesMatchesBuckets

\* C10: the aggregation invariant after accepted ticks whose minute buckets
\* arrive in non-decreasing order.
C10_AggregationInOrder == hist.inOrder => SeriesMatchesBuckets

\* Two buckets in order, one of them with a price above its open and a later
\* price below that high.
C10_Witness ==
  /\ hist.inOrder
  /\ Len(cs.ohlcM1) >= 2
  /\ \E i \in 1..Len(cs.ohlcM1) :
       cs.ohlcM1[i].h > cs.ohlcM1[i].o /\ cs.ohlcM1[i].c < cs.ohlcM1[i].h

\* C11: an invalid tick is dropped with no state mutation: a call of pushTick
\* with a non-finite or non-positive price leaves lastPrice, the candle
\* buffer, the series and its cache, warmupComplete and the timing window
\* unchanged.
C11_InvalidTickDropped ==
  [][hist'.nInvalid = hist.nInvalid + 1
       => UNCHANGED <<cs, circularBuffer, stc>>]_vars

\* C12: after N pushes into a buffer of capacity C >= 1 the buffer holds
\* min(N, C) candles, toArray() is the most recent min(N, C) pushed candles
\* oldest first, getLastCandle() is the last pushed candle or null, and the
\* size never exceeds C.
C12_BufferCapacity ==
  LET N == Len(hist.pushed)
      C == circularBuffer.maxSize
      kept == Min(N, C)
  IN /\ circularBuffer.size = kept
     /\ circularBuffer.size <= C
     /\ toArray(circularBuffer) = [i \in 1..kept |-> hist.pushed[N - kept + i]]
     /\ getLastCandle(circularBuffer) = IF N = 0 THEN NULL ELSE hist.pushed[N]

\* More candles pushed than a capacity of at least 2 holds.
C12_Witness ==
  /\ circularBuffer.maxSize >= 2
  /\ Len(hist.pushed) > circularBuffer.maxSize + 1

\* C13: for ticks with non-decreasing timestamps, an accepted tick in the
\* minute of the latest candle changes only that candle (high, low, close),
\* an accepted tick in a later minute appends one candle with
\* open = high = low = close = price at the minute's open time, and the open
\* times of the series are strictly increasing.
C13_CandleBuild ==
  [][LET price == hist'.offered.price
         candleTime == (hist'.offered.ts \div 60000) * 60000
         n == Len(cs.ohlcM1)
     IN (hist'.nTicks = hist.nTicks + 1 /\ ~rejected(price))
          => /\ IF n > 0 /\ cs.ohlcM1[n].t = candleTime
                THEN cs'.ohlcM1 =
                       [cs.ohlcM1 EXCEPT ![n] =
                          [@ EXCEPT !.h = Max(cs.ohlcM1[n].h, price),
                                    !.l = Min(cs.ohlcM1[n].l, price),
                                    !.c = price]]
                ELSE cs'.ohlcM1 =
                       Append(cs.ohlcM1, [t |-> candleTime, o |-> price,
                                          h |-> price, l |-> price, c |-> price])
             /\ \A i \in 1..(Len(cs'.ohlcM1) - 1) :
                  cs'.ohlcM1[i].t < cs'.ohlcM1[i + 1].t]_vars

\* A candle has been updated within its minute and a later minute has
\* appended another one.
C13_Witness ==
  /\ Len(cs.ohlcM1) >= 2
  /\ cs.ohlcM1[1].h > cs.ohlcM1[1].l
  /\ hist.offered.ts >= 60000

C15_ConfidenceRange ==
  hist.publish.outcome = "published" => cs.lastSignal.confidence \in 40..95

\* A fallback signal of a group at weight 2.0 published at the upper end
\* after the strict gates passed and the elevation branch was taken.
C15_Witness ==
  /\ hist.publish.outcome = "published"
  /\ env.canElevate = "true"
  /\ ~hist.input.agentProposes
  /\ getBanditWeight(rl, cs.lastSignal.groupId) = 4000
  /\ cs.lastSignal.confidence = 95

\* C16: the timing controller does not close itself on expiry: an evaluation
\* tick at or after MAX_DELAY_MS of an open window finds hasExpired() true,
\* passes 'EXPIRED' to the timing callback and leaves the window active with
\* its pending signal; an evaluation tick before MIN_DELAY_MS changes
\* nothing and calls nothing; an expired window stays active, its pending
\* signal readable, in every step but a call of stopTimingWindow.
C16_NoSelfCloseOnExpiry ==
  [][LET called(kind) == hist'.event.kind = kind /\ hist'.nCalls = hist.nCalls + 1
     IN /\ (called("evaluate") /\ isActive(stc)
                /\ getElapsedTime(stc) >= MAX_DELAY_MS)
              => /\ hasExpired(stc)
                 /\ hist'.event.callback = "EXPIRED"
                 /\ isActive(stc')
                 /\ getPendingSignal(stc') = getPendingSignal(stc)
        /\ (called("evaluate") /\ isActive(stc)
                /\ getElapsedTime(stc) < MIN_DELAY_MS)
              => /\ hist'.event.callback = "none"
                 /\ stc' = stc
        /\ (isActive(stc) /\ hasExpired(stc) /\ ~called("stop"))
              => /\ isActive(stc')
                 /\ getPendingSignal(stc') # NULL]_vars

\* The evaluation interval has notified the expiry of a window that is
\* still open with its pending signal.
C16_Witness ==
  /\ hist.event.kind = "evaluate"
  /\ hist.event.before = "expired"
  /\ hist.event.callback = "EXPIRED"
  /\ isActive(stc)
  /\ hasExpired(stc)

\* C17: stopTimingWindow is valid from any state and idempotent: called
\* while idle, while a window is open or after expiry it leaves isActive()
\* false, hasExpired() false, getElapsedTime() = 0, getRemainingTime() =
\* MAX_DELAY_MS, getPendingSignal() null and no evaluation timer, and a
\* second call changes nothing.
C17_StopIdempotent ==
  [][(hist'.event.kind = "stop" /\ hist'.nCalls = hist.nCalls + 1) =>
       /\ ~isActive(stc')
       /\ ~hasExpired(stc')
       /\ getElapsedTime(stc') = 0
       /\ getRemainingTime(stc') = MAX_DELAY_MS
       /\ getPendingSignal(stc') = NULL
       /\ ~stc'.evaluationIntervalId
       /\ stopTimingWindow(stc') = stc'
       /\ (hist.event.kind = "stop" => stc' = stc)]_vars

\* stopTimingWindow has been called after the expiry of a window.
C17_Witness ==
  /\ hist.event.kind = "stop"
  /\ hist.event.before = "expired"
  /\ hist.nCalls >= 2

\* C18: cancelling mid-window has no side effects: cancelPendingSignal
\* stops the controller, sets pendingSignalData to null and signalLocked to
\* false, and leaves lastSignal, the feed, every scheduled verification
\* timer, the bandit weights, epsilon, the session counters and the replay
\* buffer unchanged.
C18_CancelFrame ==
  [][(hist.clearedBy # "cancel" /\ hist'.clearedBy = "cancel") =>
       /\ stc' = stopTimingWindow(stc)
       /\ ~isActive(stc')
       /\ cs'.pendingSignalData = NULL
       /\ ~cs'.signalLocked
       /\ cs'.lastSignal = cs.lastSignal
       /\ feed' = feed
       /\ timers'.verification = timers.verification
       /\ cs'.signalVerificationTimeouts = cs.signalVerificationTimeouts
       /\ rl'.banditWeights = rl.banditWeights
       /\ rl'.epsilon = rl.epsilon
       /\ rl'.sessionWins = rl.sessionWins
       /\ rl'.sessionLosses = rl.sessionLosses
       /\ rl'.currentStreak = rl.currentStreak
       /\ rl'.maxStreak = rl.maxStreak
       /\ rl'.cumulativeReward = rl.cumulativeReward
       /\ rl'.totalExperiences = rl.totalExperiences
       /\ rl'.replay = rl.replay]_vars

\* A window opened after a signal was published and learned from, with a
\* timer of that signal still scheduled, has been cancelled.
C18_Witness ==
  /\ hist.clearedBy = "cancel"
  /\ hist.windowsOpened = 2
  /\ feed # NULL
  /\ timers.verification # {}
  /\ Len(rl.replay) > 0
  /\ DOMAIN rl.banditWeights # {}

\* C19: warmup completes exactly once: warmupComplete goes from false to
\* true at the first tick that brings the candle count to WARMUP_CANDLES
\* and never returns to false; warmupBanditFromHistory is invoked exactly
\* once, at that tick; no timing window is opened and no signal is
\* published while warmupComplete is false.
C19_WarmupOnce ==
  [][/\ cs.warmupComplete => cs'.warmupComplete
     /\ cs'.warmupComplete # cs.warmupComplete
          => /\ Len(cs.ohlcM1) = WARMUP_CANDLES - 1
             /\ Len(cs'.ohlcM1) = WARMUP_CANDLES
     /\ Len(cs'.ohlcM1) >= WARMUP_CANDLES => cs'.warmupComplete
     /\ hist'.warmupCalls = IF cs'.warmupComplete THEN 1 ELSE 0
     /\ hist'.warmupCalls # hist.warmupCalls
          => ~cs.warmupComplete /\ cs'.warmupComplete
     /\ ~cs'.warmupComplete
          => /\ ~isActive(stc')
             /\ cs'.pendingSignalData = NULL
             /\ cs'.lastSignal = NULL
             /\ hist'.windowsOpened = 0
             /\ hist'.published = 0]_vars

\* Ticks of further minutes have arrived after the warmup completed and a
\* signal has been published.
C19_Witness ==
  /\ cs.warmupComplete
  /\ hist.warmupCalls = 1
  /\ Len(cs.ohlcM1) > WARMUP_CANDLES
  /\ hist.published = 1

\* C20: bandit weight bounds: after any sequence of WIN/LOSS updates with
\* confidence in [40, 95], the warmup seeding and weights restored from
\* storage included, every weight getBanditWeight returns is within
\* [0.5, 2.0], and a group that was never updated has weight 1.0.
C20_BanditWeightBounds ==
  \A g \in Groups :
    /\ getBanditWeight(rl, g) >= 1000
    /\ getBanditWeight(rl, g) <= 4000
    /\ g \notin hist.touched => getBanditWeight(rl, g) = 2000

\* A win at confidence 95 on a weight already near 2.0 and a group without
\* any update.
C20_Witness ==
  /\ hist.lastUpdate.result = "WIN"
  /\ hist.lastUpdate.before > 3800
  /\ getBanditWeight(rl, hist.lastUpdate.group) = 4000
  /\ hist.touched # Groups

\* C21: epsilon decays monotonically to its floor: across outcome events
\* epsilon never increases and is never below EPSILON_MIN; the decay factor
\* is 0.9995 while totalExperiences <= 100 and 0.997 once it is above 100.
C21_EpsilonDecay ==
  [][hist'.nOutcomes = hist.nOutcomes + 1 =>
       /\ rl'.epsilon <= rl.epsilon
       /\ rl'.epsilon >= EPSILON_MIN
       /\ rl.epsilon > EPSILON_MIN =>
            rl'.epsilon = IF rl'.totalExperiences > 100
                          THEN (rl.epsilon * 997) \div 1000
                          ELSE (rl.epsilon * 9995) \div 10000]_vars

\* C22: replay buffer capacity and sampling: after any sequence of adds the
\* buffer holds at most maxSize experiences, the most recently added ones
\* in insertion order; sample(batchSize) returns an empty batch when fewer
\* than batchSize are stored and otherwise exactly batchSize pairwise
\* distinct stored experiences; learnFromExperience performs a training
\* step only when the buffer holds at least MIN_EXPERIENCES experiences.
C22_ReplayCapacityAndSampling ==
  LET N == Len(hist.added)
      kept == Min(N, rl.replayMaxSize)
      b == hist.batch
  IN /\ Len(rl.replay) <= rl.replayMaxSize
     /\ rl.replay = [i \in 1..kept |-> hist.added[N - kept + i]]
     /\ IF Len(b.from) < b.size THEN b.batch = <<>>
        ELSE /\ Len(b.batch) = b.size
             /\ \A i \in 1..b.size : \E k \in 1..Len(b.from) : b.batch[i] = b.from[k]
             /\ \A i, j \in 1..b.size : i # j => b.batch[i] # b.batch[j]
     /\ rl.trainSteps = IF N >= MIN_EXPERIENCES THEN N - MIN_EXPERIENCES + 1 ELSE 0

\* A buffer of capacity 2 has evicted experiences and a batch of 2 was
\* drawn from it.
C22_Witness ==
  /\ rl.replayMaxSize = 2
  /\ Len(hist.added) > 3
  /\ hist.batch.size = 2
  /\ Len(hist.batch.batch) = 2
  /\ hist.batch.from = rl.replay

\* C23: every component of the StateVector returned by encodeState lies in
\* [0, 1], for every candle series, regime descriptor and every reachable
\* value of the session counters; with fewer than 50 candles all 16
\* components are 0.5.
C23_StateVectorInUnitRange ==
  \A n \in CandleCounts, ind \in IndicatorSamples :
    \A i \in 0..(STATE_DIMENSION - 1) :
      /\ stateVector(rl, n, ind)[i] >= 0
      /\ stateVector(rl, n, ind)[i] <= 1000
      /\ n < 50 => stateVector(rl, n, ind)[i] = 500

C25_IncompatibleWeightsRejected ==
  rl.isInitialized =>
    /\ rl.dqnAgent.targetNetwork = rl.dqnAgent.onlineNetwork
    /\ (hist.input.fails \/ hist.input.data = NULL) =>
          /\ rl.dqnAgent.onlineNetwork = NewNetwork
          /\ rl.epsilon = EPSILON
          /\ rl.totalExperiences = 0
    /\ (~hist.input.fails /\ hist.input.data # NULL
          /\ hist.input.data.weights # NULL
          /\ \E m \in {"W1", "W2", "W3"} :
                hist.input.data.weights[m] # NewNetwork[m]) =>
          rl.dqnAgent.onlineNetwork = NewNetwork

\* C26: under the same market conditions and risk snapshot, the reward of a
\* WIN is non-decreasing and the reward of a LOSS non-increasing in the
\* confidence over [40, 95]; WIN at 90 is strictly above WIN at 60 and LOSS
\* at 90 strictly below LOSS at 60.
C26_RewardMonotoneInConfidence ==
  hist.reward # NULL =>
    LET e == hist.reward
        at(c) == rewardOf(rl, e.result, c, e.marketConditions)
    IN /\ \A c \in RewardConfidences :
            (c >= e.confidence) =>
               IF e.result = "WIN" THEN at(c) >= e.value ELSE at(c) <= e.value
       /\ (e.confidence = 60) =>
               IF e.result = "WIN" THEN at(90) > e.value ELSE at(90) < e.value

C26_Witness ==
  /\ hist.reward # NULL
  /\ hist.reward.result = "LOSS"
  /\ hist.reward.confidence = 60
  /\ hist.reward.marketConditions = [stability |-> 20]
  /\ rl.lastRiskSnapshot = "EXTREME"
  /\ hist.reward.value = -35

\* C27 as stated: with neutral stability and no volatility adjustment a LOSS
\* yields -23 at confidence >= 85, -13 in [80, 85), -10 in [75, 80) and -5
\* below 75, the penalties -10, -5 and -3 adding up.
C27_LossPenaltiesStack ==
  (/\ hist.reward # NULL
   /\ hist.reward.result = "LOSS"
   /\ hist.reward.marketConditions \in {NULL, [stability |-> 50]}
   /\ rl.lastRiskSnapshot # "EXTREME") =>
     hist.reward.value =
        IF hist.reward.confidence >= 85 THEN -230
        ELSE IF hist.reward.confidence >= 80 THEN -130
        ELSE IF hist.reward.confidence >= 75 THEN -100
        ELSE -50

\* C27: with neutral stability and no volatility adjustment a LOSS yields
\* -18 at confidence >= 85 (-5 - 10 - 3: the -5 of the band [75, 85) is not
\* added to the -10), -13 in [80, 85), -10 in [75, 80) and -5 below 75.
C27_LossPenalties ==
  (/\ hist.reward # NULL
   /\ hist.reward.result = "LOSS"
   /\ hist.reward.marketConditions \in {NULL, [stability |-> 50]}
   /\ rl.lastRiskSnapshot # "EXTREME") =>
     hist.reward.value =
        IF hist.reward.confidence >= 85 THEN -180
        ELSE IF hist.reward.confidence >= 80 THEN -130
        ELSE IF hist.reward.confidence >= 75 THEN -100
        ELSE -50

C27_Witness ==
  /\ hist.reward # NULL
  /\ hist.reward.result = "LOSS"
  /\ hist.reward.confidence = 85
  /\ hist.reward.marketConditions = NULL
  /\ rl.lastRiskSnapshot = NOTHING
  /\ hist.reward.value = -180

\* C28: a call of updateRegime with fewer than 50 candles returns the
\* neutral default and leaves the detector as it was; the history holds the
\* most recent entries, at most 100; the stability score is 50 while the
\* history holds fewer than 10 entries and afterwards is
\* (agreeVolatility + agreeTrend) / 20 * 100 over the last 10 entries, a
\* value of [0, 100].
C28_RegimeHistoryAndStability ==
  LET d == env.detector
      n == Len(d.regimeHistory)
  IN /\ (hist.detect.candles # NONE /\ hist.detect.candles < 50) =>
           (d = hist.detect.before /\ hist.detect.returned = DefaultRegime)
     /\ n <= 100
     /\ d.regimeHistory = Last(hist.detected, 100)
     /\ d.stabilityScore >= 0
     /\ d.stabilityScore <= 100
     /\ d.stabilityScore =
           IF n < 10 THEN 50
           ELSE LET latest == d.regimeHistory[n].regime
                    agree(f) == Cardinality({i \in (n - 9)..n :
                                  d.regimeHistory[i].regime[f] = latest[f]})
                IN ((agree("volatility") + agree("direction")) * 100) \div 20

C28_Witness ==
  /\ hist.nCalls = MaxDetections
  /\ Len(hist.detected) > 100
  /\ Len(env.detector.regimeHistory) = 100
  /\ env.detector.stabilityScore = 95
  /\ hist.detect.candles = 49

\* C29: a proposal returned by an indicator group is null or has its action
\* in {BUY, SELL} and an integer confidence in [60, 95], the confidence
\* being clamp(round(base + 5 * strength - (10 if the filter failed)
\* + (3 if adx > 25)), 60, 95); no proposal has a null action.
C29_ProposalShape ==
  hist.analysis # NULL =>
    LET proposal == hist.analysis.proposal
        group == GROUPS[hist.input.group]
        data == hist.input.data
        strength == data.signalStrength
        \* 1200 times (base + 5 * strength / part - 10 ... + 3 ...)
        exact == 1200 * group.base + (10 * strength) \div group.part
                   - (IF group.filter /\ ~data.atrFilter THEN 12000 ELSE 0)
                   + (IF group.adx /\ data.adx > 25 THEN 3600 ELSE 0)
        rounded(c) == 1200 * c - 600 <= exact /\ exact < 1200 * c + 600
    IN proposal # NULL =>
         /\ proposal.action \in {"BUY", "SELL"}
         /\ proposal.confidence \in 60..95
         /\ strength = PosInfinity => proposal.confidence = 95
         /\ strength = NegInfinity => proposal.confidence = 60
         /\ strength \notin {PosInfinity, NegInfinity} =>
               \/ rounded(proposal.confidence)
               \/ proposal.confidence = 60 /\ exact < 1200 * 60 + 600
               \/ proposal.confidence = 95 /\ exact >= 1200 * 95 - 600

C29_Witness ==
  /\ hist.analysis # NULL
  /\ hist.analysis.proposal # NULL
  /\ hist.analysis.proposal.confidence = 81
  /\ hist.input.data.signalStrength = 120
  /\ hist.input.data.adx = 26
  /\ GROUPS[hist.input.group].id = "ADX_MACD"

\* C30: calculateRSI(closes, period) is null when closes has fewer than
\* period + 1 samples, for every period >= 1; otherwise it is a value of
\* [0, 100], exactly 100 when the trailing window holds no losing change
\* and exactly 0 when it holds only losing changes.
C30_RsiBounds ==
  hist.rsi # NULL =>
    LET closes == hist.input.closes
        period == hist.input.period
        n == Len(closes)
        window == (n - period + 1)..n
    IN IF n < period + 1 THEN hist.rsi.isNull
       ELSE /\ ~hist.rsi.isNull
            /\ hist.rsi.value >= 0
            /\ hist.rsi.value <= 100000
            /\ (\A i \in window : closes[i] >= closes[i - 1]) =>
                  hist.rsi.value = 100000
            /\ (\A i \in window : closes[i] < closes[i - 1]) =>
                  hist.rsi.value = 0

C30_Witness ==
  /\ hist.rsi # NULL
  /\ ~hist.rsi.isNull
  /\ hist.input.period = 2
  /\ hist.input.closes = <<1, 3, 2, 1>>
  /\ hist.rsi.value = 0

\* C31: a signal is written to the PS_AT_FEED feed only if its confidence
\* is at least 75; a generated signal of lower confidence, a fallback
\* signal included, is never written to the feed.
C31_FeedNeedsConfidence75 ==
  feed # NULL => feed.bestSignal.confidence >= 75

\* C32: signalLocked stays true from the opening of a window through the
\* publish until the outcome is verified or the lock is force-unlocked (a
\* window that is cancelled or yields no action is released without a
\* publish); a completed publish has handed the signal to the feed, leaves
\* pendingSignalData null and the controller inactive, and has registered
\* exactly one verification timer for the signal, of delay
\* expirySeconds * 1000 + 15000 ms; at most one feed-poll interval is ever
\* created.
C32_PublishProtocol ==
  [][/\ (cs.signalLocked /\ ~cs'.signalLocked) =>
           \/ hist'.verified = hist.verified + 1
           \/ (cs.lastSignal # NULL /\ hist'.forceUnlocked)
           \/ (hist.clearedBy = "open" /\ hist'.clearedBy \in {"cancel", "noAction"})
     /\ (hist'.published = hist.published + 1) =>
           /\ cs'.signalLocked
           /\ cs'.lastSignal # NULL
           /\ feed' # NULL
           /\ feed'.timestamp = cs'.lastSignal.timestamp
           /\ cs'.pendingSignalData = NULL
           /\ ~isActive(stc')
           /\ Cardinality({t \in timers'.verification :
                             t.id = cs'.lastSignal.timestamp}) = 1
           /\ \A t \in timers'.verification :
                 t.id = cs'.lastSignal.timestamp =>
                    /\ t.stage = "expiry"
                    /\ t.delay = cs'.lastSignal.expiry * 1000 + 15000
     /\ hist'.feedIntervals <= 1]_vars

\* C33: in every reachable state exactly one of three phases holds: idle
\* (signalLocked false, pendingSignalData null, lastSignal null), analysing
\* (signalLocked true, pendingSignalData non-null, lastSignal null) or
\* awaiting outcome (signalLocked true, pendingSignalData null, lastSignal
\* non-null); so no signal is published while a published signal is
\* unverified.
C33_OrchestratorPhase ==
  [][/\ \/ ~cs'.signalLocked /\ cs'.pendingSignalData = NULL
              /\ cs'.lastSignal = NULL
        \/ cs'.signalLocked /\ cs'.pendingSignalData # NULL
              /\ cs'.lastSignal = NULL
        \/ cs'.signalLocked /\ cs'.pendingSignalData = NULL
              /\ cs'.lastSignal # NULL
     /\ hist'.published > hist.published => cs.lastSignal = NULL]_vars

C33_Witness ==
  /\ hist.published = 2
  /\ hist.verified = 1
  /\ cs.signalLocked
  /\ cs.pendingSignalData = NULL
  /\ cs.lastSignal # NULL

\* C34: for an agent-selected signal the confidence that enters the gate
\* adjustment of publishPendingSignal is the confidence C that
\* getRecommendedAction returned (the bandit weight being applied once), so
\* that the gate-adjusted confidence is
\* clamp(round(C * (0.6 + 0.4 * gateScore)), 40, 95).
C34_BanditWeightAppliedOnce ==
  (hist.gateEntry # NULL /\ hist.input # NULL /\ hist.input.agentProposes) =>
     /\ hist.gateEntry.entering = hist.gateEntry.returned
     /\ hist.input.gate = "pass" =>
           hist.gateEntry.adjusted = hist.gateEntry.returned

\* C35: for every input of at least 50 candles the volatility level follows
\* the thresholds on ratio = ATR(14) / avgClose(20) * 100: LOW below 0.3,
\* HIGH above 0.7, MEDIUM otherwise; a flat series (ATR = 0) is LOW.
C35_VolatilityFollowsRatio ==
  (hist.volatility # NULL /\ Len(hist.input.ohlcData) >= MIN_REGIME_CANDLES) =>
     LET data == hist.input.ohlcData
         n == Len(data)
         trSum == sumFrom([i \in 1..ATR_PERIOD |->
                             Max(data[n - ATR_PERIOD + i].h - data[n - ATR_PERIOD + i].l,
                                 Max(Abs(data[n - ATR_PERIOD + i].h - data[n - ATR_PERIOD + i - 1].c),
                                     Abs(data[n - ATR_PERIOD + i].l - data[n - ATR_PERIOD + i - 1].c)))],
                          1, 0)
         closeSum == sumFrom([i \in 1..AVG_PRICE_PERIOD |->
                                data[n - AVG_PRICE_PERIOD + i].c], 1, 0)
         ratioTimes == trSum * AVG_PRICE_PERIOD * 1000
         unit == ATR_PERIOD * closeSum
     IN /\ ratioTimes < 3 * unit => hist.volatility.level = "LOW"
        /\ ratioTimes > 7 * unit => hist.volatility.level = "HIGH"
        /\ (ratioTimes >= 3 * unit /\ ratioTimes <= 7 * unit) =>
              hist.volatility.level = "MEDIUM"
        /\ trSum = 0 => hist.volatility.level = "LOW"

\* C36: a group abstains for missing data only: with both indicators
\* available (not null) the group proposes the side its thresholds select,
\* also when the indicator value is exactly 0; RSI_OVERSOLD proposes BUY
\* whenever RSI < 30 and the MACD histogram > -0.0001, RSI = 0 included.
C36_AbstainsForMissingDataOnly ==
  (hist.groupResult # NULL /\ hist.input.indicator # NULL
     /\ hist.input.confirm # NULL) =>
     LET in == hist.input
         x == in.indicator.v
         result == hist.groupResult.result
         side ==
           CASE in.group = "RSI_OVERSOLD" ->
                  IF x < 30 /\ in.confirm.histogram > -1 THEN "BUY"
                  ELSE IF x > 70 /\ in.confirm.histogram < 1 THEN "SELL"
                  ELSE NOTHING
             [] in.group = "CCI_MACD" ->
                  IF x < -100 /\ in.confirm.histogram > 0 THEN "BUY"
                  ELSE IF x > 100 /\ in.confirm.histogram < 0 THEN "SELL"
                  ELSE NOTHING
             [] in.group = "WILLIAMS_BB" ->
                  IF x < -80 /\ in.confirm.percentB < 25 THEN "BUY"
                  ELSE IF x > -20 /\ in.confirm.percentB > 75 THEN "SELL"
                  ELSE NOTHING
     IN IF side = NOTHING THEN result = NULL
        ELSE result # NULL /\ result.action = side

\* C37: DQNAgent.train(batch) changes, in the online network, only the W3
\* and b3 entries of the actions that occur in the batch; the target of an
\* experience with done = true is its reward; after the step every
\* parameter of the target network is tau * online + (1 - tau) * previous
\* target, tau = 0.005.
C37_TrainTouchesOutputLayerOfTakenActions ==
  (hist.train # NULL /\ Len(hist.input.batch) > 0) =>
     LET batch == hist.input.batch
         before == hist.train.before
         online == env.agent.onlineNetwork
         target == env.agent.targetNetwork
         taken == {batch[k].action : k \in 1..Len(batch)}
         mix(o, t) == (o + 199 * t) \div 200
     IN /\ online.W1 = before.onlineNetwork.W1
        /\ online.b1 = before.onlineNetwork.b1
        /\ online.W2 = before.onlineNetwork.W2
        /\ online.b2 = before.onlineNetwork.b2
        /\ \A j \in 1..Len(online.b3) :
             j \notin taken =>
               /\ online.b3[j] = before.onlineNetwork.b3[j]
               /\ \A i \in 1..Len(online.W3) :
                    online.W3[i][j] = before.onlineNetwork.W3[i][j]
        /\ \A k \in 1..Len(batch) :
             batch[k].done => hist.train.targets[k] = batch[k].reward
        /\ \A i \in 1..2, j \in 1..2 :
             target.W1[i][j] = mix(online.W1[i][j], before.targetNetwork.W1[i][j])
        /\ \A i \in 1..2, j \in 1..3 :
             target.W2[i][j] = mix(online.W2[i][j], before.targetNetwork.W2[i][j])
        /\ \A i \in 1..3, j \in 1..3 :
             target.W3[i][j] = mix(online.W3[i][j], before.targetNetwork.W3[i][j])
        /\ \A j \in 1..2 :
             target.b1[j] = mix(online.b1[j], before.targetNetwork.b1[j])
        /\ \A j \in 1..3 :
             /\ target.b2[j] = mix(online.b2[j], before.targetNetwork.b2[j])
             /\ target.b3[j] = mix(online.b3[j], before.targetNetwork.b3[j])

\* A batch of a finished and an unfinished experience has been trained on:
\* the output layer moved for a taken action and the target network moved.
C37_Witness ==
  /\ hist.train # NULL
  /\ Len(hist.input.batch) = 2
  /\ hist.input.batch[1].done
  /\ ~hist.input.batch[2].done
  /\ hist.input.batch[2].nextState # NO_STATE
  /\ hist.train.targets[2] # hist.input.batch[2].reward
  /\ env.agent.onlineNetwork.W3 # hist.train.before.onlineNetwork.W3
  /\ env.agent.onlineNetwork.b3 # hist.train.before.onlineNetwork.b3
  /\ env.agent.targetNetwork.W1 # hist.train.before.targetNetwork.W1
  /\ env.agent.trainSteps = 1

\* C38: after any sequence of pushTick calls getSeries() returns arrays
\* opens, highs, lows, closes of the length of the candle buffer, in
\* chronological order, whose entries are the current values of the
\* candles, the in-place updates of the latest candle included.
C38_SeriesCacheFresh ==
  LET series == getSeries(cs).cachedSeries
      candles == toArray(circularBuffer)
  IN /\ Len(series.opens) = Len(candles)
     /\ Len(series.highs) = Len(candles)
     /\ Len(series.lows) = Len(candles)
     /\ Len(series.closes) = Len(candles)
     /\ \A i \in 1..Len(candles) :
          /\ series.opens[i] = candles[i].o
          /\ series.highs[i] = candles[i].h
          /\ series.lows[i] = candles[i].l
          /\ series.closes[i] = candles[i].c
     /\ \A i \in 1..(Len(candles) - 1) : candles[i].t < candles[i + 1].t

\* Two candles, the latest one moved by later ticks of its minute, and the
\* cached arrays show its present high, low and close.
C38_Witness ==
  /\ hist.nTicks >= 3
  /\ Len(toArray(circularBuffer)) = 2
  /\ cs.cachedSeries # NULL
  /\ LET last == getLastCandle(circularBuffer)
     IN /\ last.h > last.l
        /\ last.c # last.o
        /\ cs.cachedSeries.highs[2] = last.h
        /\ cs.cachedSeries.lows[2] = last.l
        /\ cs.cachedSeries.closes[2] = last.c

====
